---- MODULE Spec2Model ----
(***************************************************************************)
(* Model of the relay's submission and delivery pipeline                    *)
(* (services/api/service.go): builder submissions, optimistic simulation    *)
(* and demotion, the bid store, getHeader / getPayload and the slot clock.  *)
(***************************************************************************)
EXTENDS Integers, Sequences, FiniteSets, TLC

(* ------------------------------ bounds --------------------------------- *)
MaxSlot == 3
MaxValue == 2
MaxSubmissions == 2
MaxOperatorCalls == 1
MaxHeadEvents == 1
MaxGetPayloads == 1
MaxFetchFailures == 1
MaxConcurrentFetches == 2
MaxDutySlot == 17

Slots == 1..MaxSlot
SubmissionSlots == 2..MaxSlot
Values == 0..MaxValue
Handlers == {1, 2}
GetPayloadCalls == {1, 2}
Builders == {"b1", "b2"}
Proposers == {"p1", "p2"}
SubmissionProposers == {"p1"}
Parents == {"pa"}
BlockHashes == {"h1", "h2"}
MaxRegistrations == 2
MaxRegistrationCalls == 2
ChannelCapacity == 2
RegistrationWindow == 10
MaxTime == 3
Times == 0..MaxTime

(* ------------------------- program constants --------------------------- *)
ErrBlockAlreadyKnown == "simulation failed: block already known"
MsgAlreadyDelivered == "payload for this slot was already delivered"
MsgRandaoUnknown == "prev_randao is not known yet"

SimResults == {"", ErrBlockAlreadyKnown, "invalid block"}

\* the error of a context that was cancelled
ErrContextCanceled == "context canceled"

\* the status bits the operator sets through the internal API
OperatorStatuses ==
    {[high_prio |-> FALSE, blacklisted |-> FALSE, demoted |-> FALSE],
     [high_prio |-> TRUE, blacklisted |-> FALSE, demoted |-> TRUE],
     [high_prio |-> FALSE, blacklisted |-> TRUE, demoted |-> FALSE]}

\* the submissions tried: well-formed, or with one defect
Defects == {"none", "timestamp", "fee_recipient", "num_tx", "sanity", "random",
            "signature"}

(* the external stores' fixed contents *)
GenesisTime == 0
KnownValidatorIndexes == {1, 2}
ValidatorIndexes == {1, 2, 3}
Signers == Proposers \cup {"bad"}

\* datastore.GetKnownValidatorPubkeyByIndex: index -> pubkey, "" when unknown
GetKnownValidatorPubkeyByIndex(i) ==
    IF i = 1 THEN "p1" ELSE IF i = 2 THEN "p2" ELSE ""

\* beaconClient.GetRandao(slot): the randao mix of the beacon state at slot
GetRandao(slot) == slot

\* redis.GetProposerDuties: the duties the housekeeper published
RedisProposerDuties ==
    [s \in Slots |-> [pubkey |-> "p1", fee_recipient |-> "f1"]]

\* the duties the housekeeper publishes next
RedisProposerDutiesNext ==
    [s \in Slots |-> [pubkey |-> "p1", fee_recipient |-> "f2"]]

\* the duties are read again once every DutiesPeriod slots
DutiesPeriod == 8

\* the head slot of a relay started on a slot that is a multiple of the period
DutiesStartSlot == 8
DutySlots == (DutiesStartSlot + 1)..MaxDutySlot

(* ------------------------------ records -------------------------------- *)
NoBid == [builder |-> "", value |-> 0, blockHash |-> "", receivedAt |-> 0]
NoResp == [code |-> 0, msg |-> ""]
NoEntry == [present |-> FALSE, high_prio |-> FALSE, blacklisted |-> FALSE,
            demoted |-> FALSE, collateral |-> 0]
IdleSub == [pc |-> "idle", builder |-> "", slot |-> 0, proposer |-> "",
            parent |-> "", value |-> 0, blockHash |-> "", receivedAt |-> 0,
            optimistic |-> FALSE, opt |-> "none", simulated |-> FALSE,
            wi |-> 0, deliveredBefore |-> 0, demotedBefore |-> FALSE,
            replay |-> FALSE]
IdleGP == [pc |-> "idle", slot |-> 0, proposerIndex |-> 0, proposer |-> "",
           blockHash |-> "", signer |-> ""]

NoRegistration == [timestamp |-> 0, fee_recipient |-> "", gas_limit |-> 0]
IdleReg == [pc |-> "idle", elems |-> <<>>, i |-> 0, start |-> 0, stopped |-> FALSE, code |-> 0]
Instances == {1, 2, 3}
IdleInstance == [pc |-> "init", builderAPI |-> FALSE, key |-> "", seen |-> ""]
NoRefresh == [todo |-> <<>>, rows |-> [b \in Builders |-> NoEntry], before |-> [b \in Builders |-> NoEntry]]

\* redis.GetProposerDuties: the duties as the list of entries the cache returns
DutiesResponseOf(duties) == {[slot |-> s, entry |-> duties[s]] : s \in DOMAIN duties}

BidKeys == Slots \X Parents \X SubmissionProposers \X Builders
TupleKeys == Slots \X Parents \X SubmissionProposers
BlobKeys == Slots \X SubmissionProposers \X BlockHashes

VARIABLES
    headSlot,                  \* api.headSlot
    optimisticSlot,            \* api.optimisticSlot
    optimisticBlocks,          \* api.optimisticBlocks (wait-group counter)
    blockBuildersCache,        \* api.blockBuildersCache
    proposerDutiesMap,         \* api.proposerDutiesMap
    expectedPrevRandao,        \* api.expectedPrevRandao
    expectedPrevRandaoUpdating,\* api.expectedPrevRandaoUpdating
    randaoTasks,               \* spawned updatedExpectedRandao goroutines
    randaoFetches,             \* beaconClient.GetRandao requests in flight, per slot
    optimisticSlotTasks,       \* spawned updateOptimisticSlot goroutines
    dbBuilders,                \* durable store: block builders table
    dbDemotions,               \* durable store: demotions table
    dbDeliveredPayloads,       \* durable store: delivered payloads table
    slotLastPayloadDelivered,  \* cache: stats field slot_last_payload_delivered
    bidTraces,                 \* cache: bid-trace blobs
    executionPayloads,         \* cache: execution-payload blobs
    latestBids,                \* cache: latest bid of each builder, per tuple
    topBids,                   \* cache: best bid per tuple
    sub,                       \* handleSubmitNewBlock calls
    gp,                        \* handleGetPayload calls
    now,                       \* wall clock in milliseconds
    topHistory,                \* history: every top bid ever published
    maxAccepted,               \* history: latest receivedAt answered 200, per builder and tuple
    budget,                    \* environment: requests still to come
    ffForceGetHeader204,       \* api.ffForceGetHeader204, the value last written
    ffForceGetHeader204AtStart,\* api.ffForceGetHeader204 as NewRelayAPI left it
    getPayloadCallsInFlight,   \* api.getPayloadCallsInFlight (wait-group counter)
    srv,                       \* api.srv: the HTTP server
    stopServer,                \* position of StopServer
    dbSubmissions,             \* durable store: builder block submissions table
    reg,                       \* handleRegisterValidator call
    validatorRegistrations,    \* cache: registration timestamp of each validator
    dbValidatorRegistrations,  \* durable store: latest registration row of each validator
    validatorRegC,             \* api.validatorRegC
    activeValidatorC,          \* api.activeValidatorC
    activeValidators,          \* cache: active validators
    relayConfigPubkey,         \* cache: relay config field "pubkey"
    instance,                  \* NewRelayAPI calls of the relay instances
    ffDisableLowPrioBuilders,  \* api.ffDisableLowPrioBuilders
    builderCacheRefresh,       \* updateOptimisticSlot goroutines in their loop over the builders
    proposerDutiesResponse,    \* api.proposerDutiesResponse
    proposerDutiesSlot,        \* api.proposerDutiesSlot
    isUpdatingProposerDuties,  \* api.isUpdatingProposerDuties
    proposerDutiesTasks,       \* spawned updateProposerDuties goroutines, with the head slot before theirs
    proposerDutiesCall,        \* head slot of the updateProposerDuties call past the guard
    redisProposerDuties        \* cache: the proposer duties the housekeeper published

vars == <<headSlot, optimisticSlot, optimisticBlocks, blockBuildersCache,
          proposerDutiesMap, expectedPrevRandao, expectedPrevRandaoUpdating,
          randaoTasks, randaoFetches, optimisticSlotTasks, dbBuilders, dbDemotions,
          dbDeliveredPayloads, slotLastPayloadDelivered, bidTraces,
          executionPayloads, latestBids, topBids, sub, gp, now,
          topHistory, maxAccepted, budget, ffForceGetHeader204,
          ffForceGetHeader204AtStart, getPayloadCallsInFlight, srv, stopServer,
          dbSubmissions, reg, validatorRegistrations, dbValidatorRegistrations, validatorRegC,
          activeValidatorC, activeValidators, relayConfigPubkey, instance,
          ffDisableLowPrioBuilders, builderCacheRefresh, proposerDutiesResponse,
          proposerDutiesSlot, isUpdatingProposerDuties, proposerDutiesTasks,
          proposerDutiesCall, redisProposerDuties>>

clockVars == <<headSlot, proposerDutiesMap>>
randaoVars == <<expectedPrevRandao, expectedPrevRandaoUpdating, randaoTasks, randaoFetches>>
optVars == <<optimisticSlot, optimisticBlocks, blockBuildersCache,
             optimisticSlotTasks>>
dbVars == <<dbBuilders, dbDemotions, dbDeliveredPayloads>>
storeVars == <<bidTraces, executionPayloads, latestBids, topBids, topHistory>>
payloadVars == <<gp, slotLastPayloadDelivered>>
serverVars == <<ffForceGetHeader204, ffForceGetHeader204AtStart, getPayloadCallsInFlight, srv, stopServer>>
regVars == <<reg, validatorRegistrations, dbValidatorRegistrations, validatorRegC, activeValidatorC, activeValidators>>
bootVars == <<relayConfigPubkey, instance, ffDisableLowPrioBuilders>>
dutiesVars == <<proposerDutiesResponse, proposerDutiesSlot, isUpdatingProposerDuties, proposerDutiesCall, redisProposerDuties>>
refreshVars == <<builderCacheRefresh, dutiesVars, proposerDutiesTasks>>
auxVars == <<serverVars, regVars, bootVars, dbSubmissions, refreshVars>>


(* ------------------------- bid store (cache) --------------------------- *)
HashRank(h) == IF h = "h1" THEN 1 ELSE IF h = "h2" THEN 2 ELSE 0

\* save_latest_builder_bid: overwrites this builder's current bid
SaveLatestBuilderBid(bids, slot, builder, parent, proposer, receivedAt, value, blockHash) ==
    [bids EXCEPT ![<<slot, parent, proposer, builder>>] =
        [builder |-> builder, value |-> value, blockHash |-> blockHash,
         receivedAt |-> receivedAt]]

\* get_builder_latest_received_at: 0 when the builder has no bid yet
GetBuilderLatestPayloadReceivedAt(slot, builder, parent, proposer) ==
    latestBids[<<slot, parent, proposer, builder>>].receivedAt

\* b1 is preferred to b2 by update_top_bid
BetterBid(b1, b2) ==
    \/ b1.value > b2.value
    \/ /\ b1.value = b2.value
       /\ \/ b1.receivedAt < b2.receivedAt
          \/ /\ b1.receivedAt = b2.receivedAt
             /\ HashRank(b1.blockHash) <= HashRank(b2.blockHash)

\* the bids retained for a tuple
BuilderBids(bids, slot, parent, proposer) ==
    {bids[<<slot, parent, proposer, b>>] : b \in Builders} \ {NoBid}

\* update_top_bid: scans all builder bids of the tuple, publishes the best
UpdateTopBid(tops, bids, slot, parent, proposer) ==
    LET cands == BuilderBids(bids, slot, parent, proposer) IN
    IF cands = {} THEN tops
    ELSE [tops EXCEPT ![<<slot, parent, proposer>>] =
            CHOOSE c \in cands : \A d \in cands : BetterBid(c, d)]

\* get_best_bid
GetBestBid(slot, parent, proposer) == topBids[<<slot, parent, proposer>>]

(* ------------------------------ getHeader ------------------------------ *)

\* getHeader without the kill switch
handleGetHeaderNoSwitch(force204, slot, parent, proposer) ==
    IF slot < headSlot THEN [code |-> 400, bid |-> NoBid]
    ELSE LET bid == GetBestBid(slot, parent, proposer) IN
         IF bid = NoBid \/ bid.value = 0 THEN [code |-> 204, bid |-> NoBid]
         ELSE [code |-> 200, bid |-> bid]

\* handleGetHeader: the response to getHeader(slot, parent, proposer) of a
\* handler that reads force204 from api.ffForceGetHeader204
handleGetHeaderReading(force204, slot, parent, proposer) ==
    IF slot < headSlot THEN [code |-> 400, bid |-> NoBid]
    ELSE IF force204 THEN [code |-> 204, bid |-> NoBid]
    ELSE LET bid == GetBestBid(slot, parent, proposer) IN
         IF bid = NoBid THEN [code |-> 204, bid |-> NoBid]
         ELSE IF bid.value = 0 THEN [code |-> 204, bid |-> NoBid]
         ELSE [code |-> 200, bid |-> bid]

\* api.ffForceGetHeader204 is a plain field: StopServer writes it while
\* handlers read it, with no synchronisation between them. A handler reads
\* the value last written or, once StopServer has written, possibly still
\* the value NewRelayAPI left.
ReadsOfForceGetHeader204 ==
    IF stopServer = "none" THEN {ffForceGetHeader204}
    ELSE {ffForceGetHeader204, ffForceGetHeader204AtStart}

\* the responses getHeader(slot, parent, proposer) can give now
GetHeaderResponses(slot, parent, proposer) ==
    {handleGetHeaderReading(f, slot, parent, proposer) : f \in ReadsOfForceGetHeader204}

\* the response of a handler that reads the value last written
handleGetHeader(slot, parent, proposer) ==
    handleGetHeaderReading(ffForceGetHeader204, slot, parent, proposer)

(* ------------------------- builders (durable) -------------------------- *)
\* the update by collateral id without the test for an empty id
SetBlockBuilderStatusAnyId(db, pubkey, status) ==
    [b \in Builders |->
        IF b = pubkey \/ db[b].collateral_id = db[pubkey].collateral_id
        THEN [db[b] EXCEPT !.high_prio = status.high_prio,
                           !.blacklisted = status.blacklisted,
                           !.demoted = status.demoted]
        ELSE db[b]]

\* db.SetBlockBuilderCollateral: the collateral id and value of one builder
SetBlockBuilderCollateral(db, pubkey, collateralID, value) ==
    [db EXCEPT ![pubkey].collateral_id = collateralID, ![pubkey].collateral = value]

\* db.SetBlockBuilderStatus: the builder and every builder sharing its
\* non-empty collateral id get the three status bits
SetBlockBuilderStatus(db, pubkey, status) ==
    [b \in Builders |->
        IF \/ b = pubkey
           \/ /\ db[pubkey].collateral_id # ""
              /\ db[b].collateral_id = db[pubkey].collateral_id
        THEN [db[b] EXCEPT !.high_prio = status.high_prio,
                           !.blacklisted = status.blacklisted,
                           !.demoted = status.demoted]
        ELSE db[b]]

\* the status bits as the cache holds them
CachedStatus(builderEntry) ==
    [high_prio |-> builderEntry.high_prio,
     blacklisted |-> builderEntry.blacklisted,
     demoted |-> builderEntry.demoted]

\* demoteBuilder: the status written for a demoted builder
DemotedStatus(builderEntry) ==
    [high_prio |-> builderEntry.high_prio,
     blacklisted |-> builderEntry.blacklisted,
     demoted |-> TRUE]

\* db.InsertBuilderDemotion: a row per (slot, builder, block hash)
InsertBuilderDemotion(rows, s, simError) ==
    IF \E r \in rows : r.slot = s.slot /\ r.builder = s.builder /\ r.blockHash = s.blockHash
    THEN rows
    ELSE rows \cup {[slot |-> s.slot, builder |-> s.builder, blockHash |-> s.blockHash,
                     value |-> s.value, simError |-> simError,
                     signed_beacon_block |-> "", signed_validator_registration |-> ""]}

\* db.UpdateBuilderDemotion: the refund justification of the row of the trace
UpdateBuilderDemotion(rows, slot, builder, blockHash, signedBlock, signedRegistration) ==
    {IF r.slot = slot /\ r.builder = builder /\ r.blockHash = blockHash
     THEN [r EXCEPT !.signed_beacon_block = signedBlock,
                    !.signed_validator_registration = signedRegistration]
     ELSE r : r \in rows}

\* db.GetValidatorRegistration, as the signed registration it converts to;
\* empty when the validator has no row
GetValidatorRegistration(pubkey) ==
    IF pubkey \in DOMAIN dbValidatorRegistrations /\ dbValidatorRegistrations[pubkey] # NoRegistration
    THEN pubkey ELSE ""

\* updateOptimisticSlot: the cache entry built from a block-builders row
CacheEntryOf(row) ==
    [present |-> TRUE, high_prio |-> row.high_prio, blacklisted |-> row.blacklisted,
     demoted |-> row.demoted, collateral |-> row.collateral]

\* the comparison with "block already known" inverted
simulateBlockInverted(simErr) == IF simErr = ErrBlockAlreadyKnown THEN simErr ELSE ""

\* every error of the simulator counts as a failure
simulateBlockStrict(simErr) == simErr

\* every simulation counts as success
simulateBlockLenient(simErr) == ""

\* simulateBlock: "block already known" counts as success
simulateBlock(simErr) == IF simErr # "" /\ simErr # ErrBlockAlreadyKnown THEN simErr ELSE ""

\* the optimistic-path condition with collateral equal to the value allowed
IsOptimisticAtLeast(builderEntry, value, slot, optSlot) ==
    /\ builderEntry.collateral >= value
    /\ ~builderEntry.demoted
    /\ slot = optSlot

\* handleSubmitNewBlock: the optimistic-path condition
IsOptimistic(builderEntry, value, slot, optSlot) ==
    /\ builderEntry.collateral > value
    /\ ~builderEntry.demoted
    /\ slot = optSlot

\* the top bid updated before the builder bid is saved
TopBeforeBid == <<"trace", "payload", "top", "bid">>

\* the builder bid published before its blobs
BidBeforeBlobs == <<"bid", "trace", "payload", "top">>

\* handleSubmitNewBlock: the order of the cache writes
CacheWriteOrder == <<"trace", "payload", "bid", "top">>

(* -------------------------------- Init --------------------------------- *)
\* the relay as StartServer leaves it with the beacon node's head at slot
\* head: the duties are read, the slot is processed
InitAt(head, requests, force204, disableLowPrio) ==
    /\ headSlot = head
    /\ optimisticSlot = 0
    /\ optimisticBlocks = 0
    /\ blockBuildersCache = [b \in Builders |-> NoEntry]
    /\ proposerDutiesMap = RedisProposerDuties
    /\ expectedPrevRandao = [slot |-> 0, prevRandao |-> 0]
    /\ expectedPrevRandaoUpdating = 0
    /\ randaoTasks = {head}
    /\ randaoFetches = [s \in 0..MaxSlot |-> 0]
    /\ optimisticSlotTasks = {head}
    /\ dbBuilders = [b \in Builders |->
                        [high_prio |-> FALSE, blacklisted |-> FALSE, demoted |-> FALSE,
                         collateral |-> MaxValue, collateral_id |-> ""]]
    /\ dbDemotions = {}
    /\ dbDeliveredPayloads = {}
    /\ slotLastPayloadDelivered = 0
    /\ bidTraces = [k \in BlobKeys |-> NoBid]
    /\ executionPayloads = {}
    /\ latestBids = [k \in BidKeys |-> NoBid]
    /\ topBids = [k \in TupleKeys |-> NoBid]
    /\ sub = [h \in Handlers |-> IdleSub]
    /\ gp = [g \in GetPayloadCalls |-> IdleGP]
    /\ now = 1
    /\ topHistory = {}
    /\ maxAccepted = [k \in BidKeys |-> 0]
    /\ budget = requests
    /\ ffForceGetHeader204 = force204
    /\ ffForceGetHeader204AtStart = force204
    /\ getPayloadCallsInFlight = 0
    /\ srv = "serving"
    /\ stopServer = "none"
    /\ dbSubmissions = {}
    /\ reg = IdleReg
    /\ validatorRegistrations = [v \in Proposers |-> IF v \in SubmissionProposers THEN 1 ELSE 0]
    /\ dbValidatorRegistrations =
          [v \in Proposers |-> IF v \in SubmissionProposers
                               THEN [timestamp |-> 1, fee_recipient |-> "f1", gas_limit |-> 1]
                               ELSE NoRegistration]
    /\ validatorRegC = <<>>
    /\ activeValidatorC = <<>>
    /\ activeValidators = {}
    /\ relayConfigPubkey = ""
    /\ instance = [i \in Instances |-> IdleInstance]
    /\ ffDisableLowPrioBuilders = disableLowPrio
    /\ builderCacheRefresh = [s \in Slots |-> NoRefresh]
    /\ proposerDutiesResponse = DutiesResponseOf(RedisProposerDuties)
    /\ proposerDutiesSlot = head
    /\ isUpdatingProposerDuties = FALSE
    /\ proposerDutiesTasks = {[slot |-> head, prev |-> 0]}
    /\ proposerDutiesCall = 0
    /\ redisProposerDuties = DutiesResponseOf(RedisProposerDuties)

\* the relay started at slot 1
InitEnv(requests, force204, disableLowPrio) == InitAt(1, requests, force204, disableLowPrio)

\* the relay started without FORCE_GET_HEADER_204 and DISABLE_LOWPRIO_BUILDERS
InitWith(requests) == InitEnv(requests, FALSE, FALSE)

Init == InitWith([submissions |-> MaxSubmissions, operator |-> MaxOperatorCalls,
                  headEvents |-> MaxHeadEvents, getPayloads |-> MaxGetPayloads,
                  fetchFailures |-> 0])


(* ----------------------- handleSubmitNewBlock -------------------------- *)
\* the handler answers; its slot is free once its goroutine (if any) is done
Return(h) ==
    IF sub[h].opt \in {"spawned", "running"}
    THEN [sub[h] EXCEPT !.pc = "done"]
    ELSE IdleSub

\* the gates and checks without the randao confirmation
CheckSubmissionNoRandao(slot, value, builderEntry, timestamp, feeRecipient, numTx, sanityOK, random, sigOK) ==
    IF slot <= slotLastPayloadDelivered
    THEN [code |-> 400, msg |-> MsgAlreadyDelivered]
    ELSE IF timestamp # GenesisTime + (slot * 12)
    THEN [code |-> 400, msg |-> "incorrect timestamp"]
    ELSE IF proposerDutiesMap[slot].fee_recipient # feeRecipient
    THEN [code |-> 400, msg |-> "fee recipient does not match"]
    ELSE IF builderEntry.blacklisted
    THEN [code |-> 200, msg |-> "builder is blacklisted"]
    ELSE IF ffDisableLowPrioBuilders /\ ~builderEntry.high_prio
    THEN [code |-> 200, msg |-> "rejecting low-prio builder"]
    ELSE IF slot <= headSlot
    THEN [code |-> 400, msg |-> "submission for past slot"]
    ELSE IF value = 0 \/ numTx = 0
    THEN [code |-> 200, msg |-> "block with 0 value or no txs"]
    ELSE IF ~sanityOK
    THEN [code |-> 400, msg |-> "sanity check failed"]
    ELSE IF ~sigOK
    THEN [code |-> 400, msg |-> "invalid signature"]
    ELSE NoResp

\* the answer of the gates and checks, in the order of the code; NoResp when all pass
CheckSubmission(slot, value, builderEntry, timestamp, feeRecipient, numTx, sanityOK, random, sigOK) ==
    IF slot <= slotLastPayloadDelivered
    THEN [code |-> 400, msg |-> MsgAlreadyDelivered]
    ELSE IF timestamp # GenesisTime + (slot * 12)
    THEN [code |-> 400, msg |-> "incorrect timestamp"]
    ELSE IF proposerDutiesMap[slot].fee_recipient # feeRecipient
    THEN [code |-> 400, msg |-> "fee recipient does not match"]
    ELSE IF builderEntry.blacklisted
    THEN [code |-> 200, msg |-> "builder is blacklisted"]
    ELSE IF ffDisableLowPrioBuilders /\ ~builderEntry.high_prio
    THEN [code |-> 200, msg |-> "rejecting low-prio builder"]
    ELSE IF slot <= headSlot
    THEN [code |-> 400, msg |-> "submission for past slot"]
    ELSE IF value = 0 \/ numTx = 0
    THEN [code |-> 200, msg |-> "block with 0 value or no txs"]
    ELSE IF ~sanityOK
    THEN [code |-> 400, msg |-> "sanity check failed"]
    ELSE IF expectedPrevRandao.slot # slot
    THEN [code |-> 500, msg |-> MsgRandaoUnknown]
    ELSE IF expectedPrevRandao.prevRandao # random
    THEN [code |-> 400, msg |-> "incorrect prev_randao"]
    ELSE IF ~sigOK
    THEN [code |-> 400, msg |-> "invalid signature"]
    ELSE NoResp

\* randao check 1: a newer slot than the oracle's starts a refresh
KicksRandao(slot, timestamp) ==
    /\ slot > slotLastPayloadDelivered
    /\ timestamp = GenesisTime + (slot * 12)
    /\ slot > expectedPrevRandao.slot

\* the highest slot a delivered payload was recorded for so far
MaxDelivered ==
    IF dbDeliveredPayloads = {} THEN 0
    ELSE CHOOSE s \in {r.slot : r \in dbDeliveredPayloads} :
            \A r \in dbDeliveredPayloads : r.slot <= s

\* the demotion step has persisted the builder's demoted bit
DemotedByPipeline(builder) ==
    /\ dbBuilders[builder].demoted
    /\ \E r \in dbDemotions : r.builder = builder

\* the stored value mixed with the time of arrival
BidOfArrival(s) ==
    [builder |-> s.builder, value |-> (s.value + s.receivedAt) % (MaxValue + 1),
     blockHash |-> s.blockHash, receivedAt |-> s.receivedAt]

\* the bid a submission in the pipeline stores
BidOf(s) ==
    [builder |-> s.builder, value |-> s.value, blockHash |-> s.blockHash,
     receivedAt |-> s.receivedAt]

\* what a stored bid says, without the time it was received at
Content(bid) == [builder |-> bid.builder, value |-> bid.value, blockHash |-> bid.blockHash]

\* the submission was accepted before: its handler answered 200 and its bid
\* is the one retained for the builder
AlreadyAccepted(builder, slot, parent, proposer, blockHash, value) ==
    LET key == <<slot, parent, proposer, builder>> IN
    /\ latestBids[key] # NoBid
    /\ latestBids[key].value = value
    /\ latestBids[key].blockHash = blockHash
    /\ maxAccepted[key] >= latestBids[key].receivedAt

\* the cache lookup with the blacklisted bit dropped
BuilderEntryCleared(builder) == [blockBuildersCache[builder] EXCEPT !.blacklisted = FALSE]

\* builder lookup: a missing cache entry reads as low-prio, no collateral
BuilderEntry(builder) == blockBuildersCache[builder]

\* the request is received at t and runs up to the branch on collateral.
\* A request that is turned away changes nothing but the randao refresh it
\* may have started; one that changes nothing at all is a stuttering step.
SubmitNewBlock(h, builder, slot, value, t, timestamp, feeRecipient, numTx, sanityOK, random, sigOK, handlers, hashes) ==
    /\ srv = "serving"
    /\ sub[h] = IdleSub
    /\ \A h2 \in handlers : h2 < h => sub[h2] # IdleSub
    /\ t \in {now, now + 1} /\ t \in Times
    /\ LET builderEntry == BuilderEntry(builder)
           answer == CheckSubmission(slot, value, builderEntry, timestamp, feeRecipient,
                                     numTx, sanityOK, random, sigOK)
       IN
       /\ answer = NoResp \/ (KicksRandao(slot, timestamp) /\ slot - 1 \notin randaoTasks)
       /\ answer # NoResp => t = now
       /\ randaoTasks' = IF KicksRandao(slot, timestamp)
                         THEN randaoTasks \cup {slot - 1} ELSE randaoTasks
       /\ IF answer # NoResp
          THEN UNCHANGED <<sub, budget, now>>
          ELSE /\ now' = t
               /\ budget.submissions > 0
               /\ budget' = [budget EXCEPT !.submissions = @ - 1]
               /\ \E parent \in Parents, proposer \in SubmissionProposers,
                     blockHash \in hashes :
                    LET s == [IdleSub EXCEPT !.builder = builder, !.slot = slot,
                                             !.parent = parent, !.proposer = proposer,
                                             !.value = value, !.blockHash = blockHash,
                                             !.receivedAt = t,
                                             !.deliveredBefore = MaxDelivered,
                                             !.demotedBefore = DemotedByPipeline(builder),
                                             !.replay = AlreadyAccepted(builder, slot, parent,
                                                           proposer, blockHash, value)]
                    IN sub' = [sub EXCEPT ![h] =
                         IF IsOptimistic(builderEntry, value, slot, optimisticSlot)
                         THEN [s EXCEPT !.pc = "stale", !.optimistic = TRUE,
                                        !.opt = "spawned"]
                         ELSE [s EXCEPT !.pc = "sim"]]
    /\ UNCHANGED auxVars
    /\ UNCHANGED <<clockVars, expectedPrevRandao, expectedPrevRandaoUpdating, randaoFetches,
                   optVars, dbVars, storeVars, payloadVars, maxAccepted>>

\* db.SaveBuilderBlockSubmission, deferred to the return of the handler
SaveBuilderBlockSubmission(rows, s, simErr) ==
    rows \cup {[slot |-> s.slot, builder |-> s.builder, blockHash |-> s.blockHash,
                value |-> s.value, sim_error |-> simErr,
                optimistic_submission |-> s.optimistic]}

\* the answer of the synchronous simulation; NoResp when it passes
SimulateAnswer(simErr) ==
    IF simulateBlock(simErr) # "" THEN [code |-> 400, msg |-> simulateBlock(simErr)] ELSE NoResp

\* synchronous path: simulate before any cache write
SubmitSimulate(h, simErr) ==
    /\ sub[h].pc = "sim"
    /\ IF SimulateAnswer(simErr) # NoResp
       THEN /\ sub' = [sub EXCEPT ![h] = Return(h)]
            /\ dbSubmissions' = SaveBuilderBlockSubmission(dbSubmissions, sub[h],
                                                            simulateBlock(simErr))
       ELSE /\ sub' = [sub EXCEPT ![h].pc = "stale", ![h].simulated = TRUE]
            /\ UNCHANGED dbSubmissions
    /\ UNCHANGED <<serverVars, regVars, bootVars, refreshVars>>
    /\ UNCHANGED <<clockVars, randaoVars, optVars, dbVars, storeVars, payloadVars, now,
                   maxAccepted, budget>>

\* stage 14: ensure this request is still the latest one
SubmitStaleCheck(h) ==
    /\ sub[h].pc = "stale"
    /\ LET s == sub[h]
           latest == GetBuilderLatestPayloadReceivedAt(s.slot, s.builder, s.parent, s.proposer)
       IN IF s.receivedAt < latest
          THEN /\ sub' = [sub EXCEPT ![h] = Return(h)]
               /\ dbSubmissions' = SaveBuilderBlockSubmission(dbSubmissions, s, "")
          ELSE /\ sub' = [sub EXCEPT ![h].pc = "write", ![h].wi = 1]
               /\ UNCHANGED dbSubmissions
    /\ UNCHANGED <<serverVars, regVars, bootVars, refreshVars>>
    /\ UNCHANGED <<clockVars, randaoVars, optVars, dbVars, storeVars, payloadVars, now,
                   maxAccepted, budget>>

\* stage 16: the next cache write of the handler; 200 after the last one
SubmitWrite(h) ==
    /\ sub[h].pc = "write"
    /\ LET s == sub[h]
           stage == CacheWriteOrder[s.wi]
           bid == BidOf(s)
           newTops == UpdateTopBid(topBids, latestBids, s.slot, s.parent, s.proposer)
           newTop == newTops[<<s.slot, s.parent, s.proposer>>]
           key == <<s.slot, s.parent, s.proposer, s.builder>>
       IN
       /\ bidTraces' = IF stage = "trace"
                       THEN [bidTraces EXCEPT ![<<s.slot, s.proposer, s.blockHash>>] = bid]
                       ELSE bidTraces
       /\ executionPayloads' = IF stage = "payload"
                               THEN executionPayloads \cup {<<s.slot, s.proposer, s.blockHash>>}
                               ELSE executionPayloads
       /\ latestBids' = IF stage = "bid"
                        THEN SaveLatestBuilderBid(latestBids, s.slot, s.builder, s.parent,
                                                  s.proposer, bid.receivedAt, bid.value,
                                                  bid.blockHash)
                        ELSE latestBids
       /\ topBids' = IF stage = "top" THEN newTops ELSE topBids
       /\ topHistory' = IF stage = "top" /\ newTop # NoBid
                        THEN topHistory \cup
                               {<<s.slot, s.proposer, newTop.blockHash, newTop.value>>}
                        ELSE topHistory
       /\ IF s.wi = Len(CacheWriteOrder)
          THEN /\ sub' = [sub EXCEPT ![h] = Return(h)]
               /\ maxAccepted' = [maxAccepted EXCEPT ![key] =
                                    IF s.receivedAt > @ THEN s.receivedAt ELSE @]
               /\ dbSubmissions' = SaveBuilderBlockSubmission(dbSubmissions, s, "")
          ELSE /\ UNCHANGED <<maxAccepted, dbSubmissions>>
               /\ sub' = [sub EXCEPT ![h].wi = s.wi + 1]
    /\ UNCHANGED <<serverVars, regVars, bootVars, refreshVars>>
    /\ UNCHANGED <<clockVars, randaoVars, optVars, dbVars, payloadVars, now, budget>>

\* stage 16 with an error of the cache: the write changes nothing, the
\* handler answers 500 and leaves its earlier writes in place
SubmitWriteFails(h) ==
    /\ sub[h].pc = "write"
    /\ sub' = [sub EXCEPT ![h] = Return(h)]
    /\ dbSubmissions' = SaveBuilderBlockSubmission(dbSubmissions, sub[h], "")
    /\ UNCHANGED <<serverVars, regVars, bootVars, refreshVars>>
    /\ UNCHANGED <<clockVars, randaoVars, optVars, dbVars, storeVars, payloadVars, now,
                   maxAccepted, budget>>

(* ----------------------- processOptimisticBlock ------------------------ *)
\* the goroutine starts: optimisticBlocks.Add(1)
OptimisticStart(h) ==
    /\ sub[h].opt = "spawned"
    /\ optimisticBlocks' = optimisticBlocks + 1
    /\ sub' = [sub EXCEPT ![h].opt = "running"]
    /\ UNCHANGED auxVars
    /\ UNCHANGED <<clockVars, randaoVars, optimisticSlot, blockBuildersCache,
                   optimisticSlotTasks, dbVars, storeVars, payloadVars, now, maxAccepted, budget>>

\* a demotion that also evicts the payload of the failed submission
OptimisticFinishEvicts(h, simErr) ==
    /\ sub[h].opt = "running"
    /\ optimisticBlocks' = optimisticBlocks - 1
    /\ sub' = [sub EXCEPT ![h] = IF sub[h].pc = "done" THEN IdleSub
                                  ELSE [sub[h] EXCEPT !.opt = "finished"]]
    /\ IF simulateBlock(simErr) # ""
       THEN /\ dbBuilders' = SetBlockBuilderStatus(dbBuilders, sub[h].builder,
                                    DemotedStatus(BuilderEntry(sub[h].builder)))
            /\ dbDemotions' = InsertBuilderDemotion(dbDemotions, sub[h], simErr)
            /\ executionPayloads' = executionPayloads \
                                       {<<sub[h].slot, sub[h].proposer, sub[h].blockHash>>}
       ELSE UNCHANGED <<dbBuilders, dbDemotions, executionPayloads>>
    /\ UNCHANGED auxVars
    /\ UNCHANGED <<clockVars, randaoVars, optimisticSlot, blockBuildersCache,
                   optimisticSlotTasks, dbDeliveredPayloads, bidTraces, latestBids, topBids,
                   topHistory, payloadVars, now, maxAccepted, budget>>

\* the simulation returns; on failure the builder is demoted; Done()
OptimisticFinish(h, simErr) ==
    /\ sub[h].opt = "running"
    /\ optimisticBlocks' = optimisticBlocks - 1
    /\ sub' = [sub EXCEPT ![h] = IF sub[h].pc = "done" THEN IdleSub
                                  ELSE [sub[h] EXCEPT !.opt = "finished"]]
    /\ IF simulateBlock(simErr) # ""
       THEN /\ dbBuilders' = SetBlockBuilderStatus(dbBuilders, sub[h].builder,
                                    DemotedStatus(BuilderEntry(sub[h].builder)))
            /\ dbDemotions' = InsertBuilderDemotion(dbDemotions, sub[h], simErr)
       ELSE UNCHANGED <<dbBuilders, dbDemotions>>
    /\ UNCHANGED auxVars
    /\ UNCHANGED <<clockVars, randaoVars, optimisticSlot, blockBuildersCache,
                   optimisticSlotTasks, dbDeliveredPayloads, storeVars, payloadVars, now, maxAccepted, budget>>

\* blockSimRateLimiter.send(opts.ctx, ...) in the goroutine: opts.ctx is the
\* context of the request, cancelled when the handler returns; send then
\* gives the simulator's answer or, once the request has ended, the
\* context's error
SendResults(h) ==
    SimResults \cup (IF sub[h].pc = "done" THEN {ErrContextCanceled} ELSE {})

(* ----------------------------- slot clock ------------------------------ *)
\* a head event stored without the comparison with the head slot
processNewSlotAny(slot) ==
    /\ budget.headEvents > 0
    /\ budget' = [budget EXCEPT !.headEvents = @ - 1]
    /\ headSlot' = slot
    /\ randaoTasks' = randaoTasks \cup {slot}
    /\ optimisticSlotTasks' = optimisticSlotTasks \cup {slot}
    /\ proposerDutiesTasks' = proposerDutiesTasks \cup {[slot |-> slot, prev |-> headSlot]}
    /\ UNCHANGED <<serverVars, regVars, bootVars, dbSubmissions, builderCacheRefresh, dutiesVars>>
    /\ UNCHANGED <<proposerDutiesMap, expectedPrevRandao, expectedPrevRandaoUpdating,
                   randaoFetches, optimisticSlot, optimisticBlocks, blockBuildersCache,
                   dbVars, storeVars, payloadVars, sub, now, maxAccepted>>

\* processNewSlot: a head event; the refreshes are spawned as goroutines
processNewSlot(slot) ==
    /\ budget.headEvents > 0
    /\ budget' = [budget EXCEPT !.headEvents = @ - 1]
    /\ IF slot <= headSlot
       THEN UNCHANGED <<headSlot, randaoTasks, optimisticSlotTasks, proposerDutiesTasks>>
       ELSE /\ headSlot' = slot
            /\ randaoTasks' = randaoTasks \cup {slot}
            /\ proposerDutiesTasks' = proposerDutiesTasks \cup {[slot |-> slot, prev |-> headSlot]}
            /\ optimisticSlotTasks' = optimisticSlotTasks \cup {slot}
    /\ UNCHANGED <<serverVars, regVars, bootVars, dbSubmissions, builderCacheRefresh, dutiesVars>>
    /\ UNCHANGED <<proposerDutiesMap, expectedPrevRandao, expectedPrevRandaoUpdating,
                   randaoFetches, optimisticSlot, optimisticBlocks, blockBuildersCache,
                   dbVars, storeVars, payloadVars, sub, now, maxAccepted>>

\* updatedExpectedRandao(slot); fetched is the beacon node's answer
updatedExpectedRandao(slot, fetched) ==
    /\ slot \in randaoTasks
    /\ randaoTasks' = randaoTasks \ {slot}
    /\ IF slot < expectedPrevRandao.slot \/ slot <= expectedPrevRandaoUpdating
       THEN UNCHANGED <<expectedPrevRandao, expectedPrevRandaoUpdating, budget>>
       ELSE IF ~fetched
       THEN /\ budget.fetchFailures > 0
            /\ budget' = [budget EXCEPT !.fetchFailures = @ - 1]
            /\ expectedPrevRandaoUpdating' = 0
            /\ UNCHANGED expectedPrevRandao
       ELSE /\ expectedPrevRandaoUpdating' = slot
            /\ expectedPrevRandao' =
                 IF slot + 1 >= expectedPrevRandao.slot
                 THEN [slot |-> slot + 1, prevRandao |-> GetRandao(slot)]
                 ELSE expectedPrevRandao
            /\ UNCHANGED budget
    /\ UNCHANGED <<auxVars, randaoFetches>>
    /\ UNCHANGED <<clockVars, optVars, dbVars, storeVars, payloadVars, sub, now, maxAccepted>>

\* the fetched randao stored whatever the stored slot
StoresRandaoAlways(targetSlot, storedSlot) == TRUE

\* update if still the latest
StoresRandao(targetSlot, storedSlot) == targetSlot >= storedSlot

\* updatedExpectedRandao(slot), first critical section: abort when the slot
\* is known or being updated, else mark it as updating and query the
\* beacon node
RandaoBegin(slot) ==
    /\ slot \in randaoTasks
    /\ randaoTasks' = randaoTasks \ {slot}
    /\ IF slot < expectedPrevRandao.slot \/ slot <= expectedPrevRandaoUpdating
       THEN UNCHANGED <<expectedPrevRandaoUpdating, randaoFetches>>
       ELSE /\ randaoFetches[slot] < MaxConcurrentFetches
            /\ expectedPrevRandaoUpdating' = slot
            /\ randaoFetches' = [randaoFetches EXCEPT ![slot] = @ + 1]
    /\ UNCHANGED <<auxVars, expectedPrevRandao>>
    /\ UNCHANGED <<clockVars, optVars, dbVars, storeVars, payloadVars, sub, now,
                   maxAccepted, budget>>

\* updatedExpectedRandao(slot), after the request: on an error the
\* updating mark is cleared; else the randao is stored for slot + 1 if that
\* is still the latest
RandaoFetched(slot, fetched) ==
    /\ randaoFetches[slot] > 0
    /\ randaoFetches' = [randaoFetches EXCEPT ![slot] = @ - 1]
    /\ IF ~fetched
       THEN /\ budget.fetchFailures > 0
            /\ budget' = [budget EXCEPT !.fetchFailures = @ - 1]
            /\ expectedPrevRandaoUpdating' = 0
            /\ UNCHANGED expectedPrevRandao
       ELSE /\ expectedPrevRandao' =
                 IF StoresRandao(slot + 1, expectedPrevRandao.slot)
                 THEN [slot |-> slot + 1, prevRandao |-> GetRandao(slot)]
                 ELSE expectedPrevRandao
            /\ UNCHANGED <<expectedPrevRandaoUpdating, budget>>
    /\ UNCHANGED <<auxVars, randaoTasks>>
    /\ UNCHANGED <<clockVars, optVars, dbVars, storeVars, payloadVars, sub, now, maxAccepted>>

\* updateOptimisticSlot(headSlot): waits for the optimistic blocks, then
\* moves the optimistic slot and refreshes the builder cache
updateOptimisticSlot(slot) ==
    /\ slot \in optimisticSlotTasks
    /\ optimisticBlocks = 0
    /\ optimisticSlotTasks' = optimisticSlotTasks \ {slot}
    /\ optimisticSlot' = slot + 1
    /\ blockBuildersCache' = [b \in Builders |-> CacheEntryOf(dbBuilders[b])]
    /\ UNCHANGED auxVars
    /\ UNCHANGED <<clockVars, randaoVars, optimisticBlocks, dbVars, storeVars,
                   payloadVars, sub, now, maxAccepted, budget>>

\* updateProposerDuties: the map built from the list of duties
DutiesMapOf(duties) ==
    [s \in {d.slot : d \in duties} |-> (CHOOSE d \in duties : d.slot = s).entry]

\* a call that always reads the duties
NeverSkipsRefresh(slot, dutiesSlot) == FALSE

\* updateProposerDuties: the call returns without reading when the slot is
\* no multiple of the period and fewer than a period of slots have passed
\* since the last read. The difference is one of unsigned 64-bit numbers:
\* for a slot below the slot of the last read it wraps around to a number
\* far above the period.
SkipsRefresh(slot, dutiesSlot) ==
    /\ slot % DutiesPeriod # 0
    /\ slot >= dutiesSlot
    /\ slot - dutiesSlot < DutiesPeriod

\* updateProposerDuties(headSlot) up to the read: the single-flight guard
\* and the period
updateProposerDutiesBegin(task) ==
    /\ task \in proposerDutiesTasks
    /\ proposerDutiesTasks' = proposerDutiesTasks \ {task}
    /\ IF isUpdatingProposerDuties \/ SkipsRefresh(task.slot, proposerDutiesSlot)
       THEN UNCHANGED <<isUpdatingProposerDuties, proposerDutiesCall>>
       ELSE /\ isUpdatingProposerDuties' = TRUE
            /\ proposerDutiesCall' = task.slot
    /\ UNCHANGED <<serverVars, regVars, bootVars, dbSubmissions, builderCacheRefresh,
                   proposerDutiesResponse, proposerDutiesSlot, redisProposerDuties>>
    /\ UNCHANGED <<clockVars, randaoVars, optVars, dbVars, storeVars, payloadVars, sub, now,
                   maxAccepted, budget>>

\* updateProposerDuties after redis.GetProposerDuties: the duties are
\* stored when the read succeeded; the guard is released
updateProposerDutiesEnd(ok) ==
    /\ proposerDutiesCall # 0
    /\ IF ok
       THEN /\ proposerDutiesResponse' = redisProposerDuties
            /\ proposerDutiesMap' = DutiesMapOf(redisProposerDuties)
            /\ proposerDutiesSlot' = proposerDutiesCall
            /\ UNCHANGED budget
       ELSE /\ budget.dutiesFailures > 0
            /\ budget' = [budget EXCEPT !.dutiesFailures = @ - 1]
            /\ UNCHANGED <<proposerDutiesResponse, proposerDutiesMap, proposerDutiesSlot>>
    /\ isUpdatingProposerDuties' = FALSE
    /\ proposerDutiesCall' = 0
    /\ UNCHANGED <<serverVars, regVars, bootVars, dbSubmissions, builderCacheRefresh,
                   proposerDutiesTasks, redisProposerDuties>>
    /\ UNCHANGED <<headSlot, randaoVars, optVars, dbVars, storeVars, payloadVars, sub, now,
                   maxAccepted>>

\* the housekeeper publishes the duties of the next epochs
HousekeeperPublishes ==
    /\ redisProposerDuties = DutiesResponseOf(RedisProposerDuties)
    /\ redisProposerDuties' = DutiesResponseOf(RedisProposerDutiesNext)
    /\ UNCHANGED <<serverVars, regVars, bootVars, dbSubmissions, builderCacheRefresh,
                   proposerDutiesResponse, proposerDutiesSlot, isUpdatingProposerDuties,
                   proposerDutiesCall, proposerDutiesTasks>>
    /\ UNCHANGED <<clockVars, randaoVars, optVars, dbVars, storeVars, payloadVars, sub, now,
                   maxAccepted, budget>>

\* the order in which db.GetBlockBuilders returns the rows
BuilderOrder == <<"b1", "b2">>

\* updateOptimisticSlot(headSlot) up to its loop: waits for the optimistic
\* blocks, moves the optimistic slot and reads the block builders
updateOptimisticSlotBegin(slot) ==
    /\ slot \in optimisticSlotTasks
    /\ optimisticBlocks = 0
    /\ builderCacheRefresh[slot] = NoRefresh
    /\ optimisticSlotTasks' = optimisticSlotTasks \ {slot}
    /\ optimisticSlot' = slot + 1
    /\ builderCacheRefresh' = [builderCacheRefresh EXCEPT ![slot] =
                                  [todo |-> BuilderOrder,
                                   rows |-> [b \in Builders |-> CacheEntryOf(dbBuilders[b])],
                                   before |-> blockBuildersCache]]
    /\ UNCHANGED <<serverVars, regVars, bootVars, dbSubmissions, dutiesVars, proposerDutiesTasks>>
    /\ UNCHANGED <<clockVars, randaoVars, optimisticBlocks, blockBuildersCache, dbVars,
                   storeVars, payloadVars, sub, now, maxAccepted, budget>>

\* updateOptimisticSlot, one turn of the loop: the entry of the next builder
\* is written into the cache map, in place
updateOptimisticSlotWrite(slot) ==
    /\ builderCacheRefresh[slot].todo # <<>>
    /\ LET r == builderCacheRefresh[slot]
           b == Head(r.todo)
       IN /\ blockBuildersCache' = [blockBuildersCache EXCEPT ![b] = r.rows[b]]
          /\ builderCacheRefresh' = [builderCacheRefresh EXCEPT ![slot] =
                                        IF Tail(r.todo) = <<>> THEN NoRefresh
                                        ELSE [r EXCEPT !.todo = Tail(r.todo)]]
    /\ UNCHANGED <<serverVars, regVars, bootVars, dbSubmissions, dutiesVars, proposerDutiesTasks>>
    /\ UNCHANGED <<clockVars, randaoVars, optimisticSlot, optimisticBlocks,
                   optimisticSlotTasks, dbVars, storeVars, payloadVars, sub, now,
                   maxAccepted, budget>>

(* ---------------------------- internal API ----------------------------- *)
\* handleInternalBuilderStatus (POST): the operator sets the status bits
handleInternalBuilderStatus(pubkey, isHighPrio, isBlacklisted, isDemoted) ==
    /\ dbBuilders' = SetBlockBuilderStatus(dbBuilders, pubkey,
                        [high_prio |-> isHighPrio, blacklisted |-> isBlacklisted,
                         demoted |-> isDemoted])
    /\ budget.operator > 0
    /\ budget' = [budget EXCEPT !.operator = @ - 1]
    /\ UNCHANGED auxVars
    /\ UNCHANGED <<clockVars, randaoVars, optVars, dbDemotions, dbDeliveredPayloads,
                   storeVars, payloadVars, sub, now, maxAccepted>>

\* handleInternalBuilderCollateral (POST): the operator sets the collateral
handleInternalBuilderCollateral(pubkey, collateralID, value) ==
    /\ dbBuilders' = SetBlockBuilderCollateral(dbBuilders, pubkey, collateralID, value)
    /\ budget.operator > 0
    /\ budget' = [budget EXCEPT !.operator = @ - 1]
    /\ UNCHANGED auxVars
    /\ UNCHANGED <<clockVars, randaoVars, optVars, dbDemotions, dbDeliveredPayloads,
                   storeVars, payloadVars, sub, now, maxAccepted>>

(* --------------------------- handleGetPayload -------------------------- *)
\* a verification that accepts every signature
AcceptAnySignature(pubkey, signer) == TRUE

\* types.VerifySignature over the blinded block: signer is the key that signed
VerifySignature(pubkey, signer) == signer = pubkey

\* datastore.GetGetPayloadResponse
GetGetPayloadResponse(slot, proposer, blockHash) ==
    <<slot, proposer, blockHash>> \in executionPayloads

\* the answer to a getPayload request: proposer lookup, signature check,
\* payload lookup
GetPayloadAnswer(slot, proposerIndex, blockHash, signer) ==
    LET proposerPubkey == GetKnownValidatorPubkeyByIndex(proposerIndex) IN
    IF proposerPubkey = ""
    THEN [code |-> 400, msg |-> "could not find proposer pubkey for index"]
    ELSE IF ~VerifySignature(proposerPubkey, signer)
    THEN [code |-> 400, msg |-> "could not verify payload signature"]
    ELSE IF ~GetGetPayloadResponse(slot, proposerPubkey, blockHash)
    THEN [code |-> 400, msg |-> "no execution payload for this request"]
    ELSE [code |-> 200, msg |-> ""]

\* a request answered with the payload, and the goroutine it leaves behind.
\* The second lookup after the retry timeout reads the store like a request
\* made at that later moment, so the lookup is read once, at its last try.
\* A request answered 400 returns before it has changed anything.
handleGetPayload(g, slot, proposerIndex, blockHash, signer) ==
    /\ srv = "serving"
    /\ gp[g].pc = "idle"
    /\ \A g2 \in GetPayloadCalls : g2 < g => gp[g2].pc # "idle"
    /\ budget.getPayloads > 0
    /\ budget' = [budget EXCEPT !.getPayloads = @ - 1]
    /\ GetPayloadAnswer(slot, proposerIndex, blockHash, signer).code = 200
    /\ LET proposerPubkey == GetKnownValidatorPubkeyByIndex(proposerIndex) IN
       /\ gp' = [gp EXCEPT ![g] = [pc |-> "save", slot |-> slot,
                                   proposerIndex |-> proposerIndex,
                                   proposer |-> proposerPubkey, blockHash |-> blockHash,
                                   signer |-> signer]]
    /\ UNCHANGED auxVars
    /\ UNCHANGED <<clockVars, randaoVars, optVars, dbVars, storeVars,
                   slotLastPayloadDelivered, sub, now, maxAccepted>>

\* background: mark the slot delivered and persist the delivered payload
GetPayloadSave(g) ==
    /\ gp[g].pc = "save"
    /\ slotLastPayloadDelivered' = gp[g].slot
    /\ LET bidTrace == bidTraces[<<gp[g].slot, gp[g].proposer, gp[g].blockHash>>] IN
       dbDeliveredPayloads' = dbDeliveredPayloads \cup
            {[slot |-> gp[g].slot, proposer |-> gp[g].proposer,
              blockHash |-> gp[g].blockHash, builder |-> bidTrace.builder,
              value |-> bidTrace.value]}
    /\ gp' = [gp EXCEPT ![g].pc = "refund"]
    /\ UNCHANGED auxVars
    /\ UNCHANGED <<clockVars, randaoVars, optVars, dbBuilders, dbDemotions, storeVars,
                   sub, now, maxAccepted, budget>>

\* background: after the optimistic blocks, justify the refund of a demotion
GetPayloadRefund(g) ==
    /\ gp[g].pc = "refund"
    /\ optimisticBlocks = 0
    /\ LET bidTrace == bidTraces[<<gp[g].slot, gp[g].proposer, gp[g].blockHash>>] IN
       dbDemotions' = UpdateBuilderDemotion(dbDemotions, gp[g].slot, bidTrace.builder,
                                            gp[g].blockHash, gp[g].signer,
                                            GetValidatorRegistration(gp[g].proposer))
    /\ gp' = [gp EXCEPT ![g] = IdleGP]
    /\ UNCHANGED auxVars
    /\ UNCHANGED <<clockVars, randaoVars, optVars, dbBuilders, dbDeliveredPayloads,
                   storeVars, slotLastPayloadDelivered, sub, now, maxAccepted, budget>>

(* ----------------------- handleRegisterValidator ------------------------ *)
\* the registrations tried: of validator p2, of the unknown px; timestamp 20
\* is more than ten seconds ahead of every clock value
RegPubkeys == {"p2", "px"}
RegTimestamps == {1, 2, 20}
RegDefects == {"none", "malformed", "signature", "signature_error"}
RegElements == [pubkey : RegPubkeys, timestamp : RegTimestamps, defect : RegDefects, fee_recipient : {"f1"}, gas_limit : {1}]
RegArrays == UNION {[1..n -> RegElements] : n \in 1..MaxRegistrations}

\* datastore.IsKnownValidator
IsKnownValidator(pubkey) == pubkey \in Proposers

\* the previous timestamp makes the element stale only when it is newer
IsStaleStrict(prevTimestamp, timestamp) == prevTimestamp > timestamp

\* abort if the registration timestamp is older or equal to the last known one
IsStale(prevTimestamp, timestamp) == prevTimestamp >= timestamp

\* a send that drops every element
SendNothing(channel, e) == channel

\* a non-blocking send: the element is dropped when the channel is full
Send(channel, e) == IF Len(channel) < ChannelCapacity THEN Append(channel, e) ELSE channel

\* the signature an element carries
SignatureOf(e) == IF e.defect \in {"signature", "signature_error"} THEN "invalid" ELSE "valid"

\* a verification that passes every element
VerifyRegistrationLenient(e) == "ok"

\* types.VerifySignature over the registration message: ok, not ok, or an
\* error when the signature cannot be checked at all
VerifyRegistration(e) ==
    IF e.defect = "signature_error" THEN "error"
    ELSE IF e.defect = "signature" THEN "invalid"
    ELSE "ok"

\* the request arrives; registrationTimeUpperBound is fixed from its start
handleRegisterValidator(elems) ==
    /\ srv = "serving"
    /\ reg.pc = "idle"
    /\ budget.registrations > 0
    /\ budget' = [budget EXCEPT !.registrations = @ - 1]
    /\ reg' = [pc |-> "each", elems |-> elems, i |-> 1, start |-> now,
               stopped |-> FALSE, code |-> 0]
    /\ UNCHANGED <<validatorRegistrations, dbValidatorRegistrations, validatorRegC, activeValidatorC, activeValidators>>
    /\ UNCHANGED <<serverVars, bootVars, dbSubmissions, refreshVars>>
    /\ UNCHANGED <<clockVars, randaoVars, optVars, dbVars, storeVars, payloadVars, sub,
                   now, maxAccepted>>

\* the first response written stands: a later WriteHeader changes nothing
Respond(code) == IF reg.code = 0 THEN code ELSE reg.code

\* the callback of ArrayEach for the next element of the array
RegisterElement ==
    /\ reg.pc = "each"
    /\ reg.i <= Len(reg.elems)
    /\ LET e == reg.elems[reg.i]
           next == [reg EXCEPT !.i = @ + 1]
           rejected == [next EXCEPT !.stopped = TRUE, !.code = Respond(400)]
       IN
       IF reg.stopped
       THEN reg' = next /\ UNCHANGED <<validatorRegC, activeValidatorC>>
       ELSE IF e.defect = "malformed"
       THEN reg' = rejected /\ UNCHANGED <<validatorRegC, activeValidatorC>>
       ELSE IF e.timestamp > reg.start + RegistrationWindow
       THEN reg' = rejected /\ UNCHANGED <<validatorRegC, activeValidatorC>>
       ELSE IF ~IsKnownValidator(e.pubkey)
       THEN reg' = rejected /\ UNCHANGED <<validatorRegC, activeValidatorC>>
       ELSE /\ activeValidatorC' = Send(activeValidatorC, e.pubkey)
            /\ IF IsStale(validatorRegistrations[e.pubkey], e.timestamp)
               THEN reg' = next /\ UNCHANGED validatorRegC
               ELSE IF VerifyRegistration(e) = "error"
               THEN reg' = rejected /\ UNCHANGED validatorRegC
               ELSE IF VerifyRegistration(e) # "ok"
               THEN reg' = [next EXCEPT !.code = Respond(400)] /\ UNCHANGED validatorRegC
               ELSE /\ reg' = next
                    /\ validatorRegC' = Send(validatorRegC,
                                              [pubkey |-> e.pubkey, timestamp |-> e.timestamp,
                                               fee_recipient |-> e.fee_recipient,
                                               gas_limit |-> e.gas_limit,
                                               signature |-> SignatureOf(e)])
    /\ UNCHANGED <<validatorRegistrations, dbValidatorRegistrations, activeValidators>>
    /\ UNCHANGED <<serverVars, bootVars, dbSubmissions, refreshVars>>
    /\ UNCHANGED <<clockVars, randaoVars, optVars, dbVars, storeVars, payloadVars, sub,
                   now, maxAccepted, budget>>

\* the array is traversed: WriteHeader(200), the handler returns
RegisterDone ==
    /\ reg.pc = "each"
    /\ reg.i > Len(reg.elems)
    /\ reg' = IdleReg
    /\ UNCHANGED <<validatorRegistrations, dbValidatorRegistrations, validatorRegC, activeValidatorC, activeValidators>>
    /\ UNCHANGED <<serverVars, bootVars, dbSubmissions, refreshVars>>
    /\ UNCHANGED <<clockVars, randaoVars, optVars, dbVars, storeVars, payloadVars, sub,
                   now, maxAccepted, budget>>

\* startActiveValidatorProcessor: one element of the channel
ActiveValidatorProcessor ==
    /\ activeValidatorC # <<>>
    /\ activeValidators' = activeValidators \cup {Head(activeValidatorC)}
    /\ activeValidatorC' = Tail(activeValidatorC)
    /\ UNCHANGED <<reg, validatorRegistrations, dbValidatorRegistrations, validatorRegC>>
    /\ UNCHANGED <<serverVars, bootVars, dbSubmissions, refreshVars>>
    /\ UNCHANGED <<clockVars, randaoVars, optVars, dbVars, storeVars, payloadVars, sub,
                   now, maxAccepted, budget>>

\* the database save deciding by the timestamp alone
DatabaseSaveValidatorRegistrationByTimestamp(rows, entry) ==
    IF entry.timestamp > rows[entry.pubkey].timestamp
    THEN [rows EXCEPT ![entry.pubkey] =
             [timestamp |-> entry.timestamp, fee_recipient |-> entry.fee_recipient,
              gas_limit |-> entry.gas_limit]]
    ELSE rows

\* db.SaveValidatorRegistration: the first registration of a validator is
\* stored; a later one is stored when it is newer and its fee recipient or
\* gas limit differs from the stored one. rows holds the row that
\* db.GetValidatorRegistration returns for each validator.
DatabaseSaveValidatorRegistration(rows, entry) ==
    LET row == rows[entry.pubkey] IN
    IF \/ row = NoRegistration
       \/ /\ entry.timestamp > row.timestamp
          /\ \/ entry.fee_recipient # row.fee_recipient
             \/ entry.gas_limit # row.gas_limit
    THEN [rows EXCEPT ![entry.pubkey] =
             [timestamp |-> entry.timestamp, fee_recipient |-> entry.fee_recipient,
              gas_limit |-> entry.gas_limit]]
    ELSE rows

\* datastore.SaveValidatorRegistration, cache side: the timestamp kept for
\* the handler's staleness check is replaced by a newer one only
SaveValidatorRegistration(stored, valReg) ==
    IF valReg.timestamp > stored[valReg.pubkey]
    THEN [stored EXCEPT ![valReg.pubkey] = valReg.timestamp]
    ELSE stored

\* startValidatorRegistrationDBProcessor: one element of the channel
ValidatorRegistrationDBProcessor ==
    /\ validatorRegC # <<>>
    /\ dbValidatorRegistrations' = DatabaseSaveValidatorRegistration(dbValidatorRegistrations,
                                                                     Head(validatorRegC))
    /\ validatorRegistrations' = SaveValidatorRegistration(validatorRegistrations,
                                                           Head(validatorRegC))
    /\ validatorRegC' = Tail(validatorRegC)
    /\ UNCHANGED <<reg, activeValidatorC, activeValidators>>
    /\ UNCHANGED <<serverVars, bootVars, dbSubmissions, refreshVars>>
    /\ UNCHANGED <<clockVars, randaoVars, optVars, dbVars, storeVars, payloadVars, sub,
                   now, maxAccepted, budget>>

(* ----------------------------- NewRelayAPI ------------------------------ *)
\* the BLS public keys the instances are configured with
RelayKeys == {"k1", "k2"}

\* NewRelayAPI up to redis.GetRelayConfig: the instance derives its public
\* key and reads the recorded one; without the builder API it starts at once
NewRelayAPIGetConfig(i, builderAPI, key) ==
    /\ instance[i].pc = "init"
    /\ instance' = [instance EXCEPT ![i] =
                       IF builderAPI
                       THEN [pc |-> "read", builderAPI |-> TRUE, key |-> key,
                             seen |-> relayConfigPubkey]
                       ELSE [pc |-> "started", builderAPI |-> FALSE, key |-> "", seen |-> ""]]
    /\ UNCHANGED <<relayConfigPubkey, ffDisableLowPrioBuilders>>
    /\ UNCHANGED <<serverVars, regVars, dbSubmissions, refreshVars>>
    /\ UNCHANGED <<clockVars, randaoVars, optVars, dbVars, storeVars, payloadVars, sub,
                   now, maxAccepted, budget>>

\* NewRelayAPI after the read: record the key when none was read, fail when
\* another one was read
NewRelayAPICheckConfig(i) ==
    /\ instance[i].pc = "read"
    /\ IF instance[i].seen = ""
       THEN /\ relayConfigPubkey' = instance[i].key
            /\ instance' = [instance EXCEPT ![i].pc = "started"]
       ELSE /\ UNCHANGED relayConfigPubkey
            /\ instance' = [instance EXCEPT ![i].pc =
                               IF instance[i].seen # instance[i].key THEN "failed"
                                                                     ELSE "started"]
    /\ UNCHANGED ffDisableLowPrioBuilders
    /\ UNCHANGED <<serverVars, regVars, dbSubmissions, refreshVars>>
    /\ UNCHANGED <<clockVars, randaoVars, optVars, dbVars, storeVars, payloadVars, sub,
                   now, maxAccepted, budget>>

(* ---------------------------- StopServer ------------------------------- *)
\* handleGetPayload seen from StopServer: the call enters the wait group ...
GetPayloadEnter(g) ==
    /\ srv = "serving"
    /\ gp[g].pc = "idle"
    /\ \A g2 \in GetPayloadCalls : g2 < g => gp[g2].pc # "idle"
    /\ budget.getPayloads > 0
    /\ budget' = [budget EXCEPT !.getPayloads = @ - 1]
    /\ gp' = [gp EXCEPT ![g].pc = "entered"]
    /\ getPayloadCallsInFlight' = getPayloadCallsInFlight + 1
    /\ UNCHANGED <<ffForceGetHeader204, ffForceGetHeader204AtStart, srv, stopServer>>
    /\ UNCHANGED <<regVars, bootVars, dbSubmissions, refreshVars>>
    /\ UNCHANGED <<clockVars, randaoVars, optVars, dbVars, storeVars,
                   slotLastPayloadDelivered, sub, now, maxAccepted>>

\* ... and leaves it when the handler returns, with the payload or an error
GetPayloadReturn(g, slot, proposerIndex, blockHash, signer) ==
    /\ gp[g].pc = "entered"
    /\ getPayloadCallsInFlight' = getPayloadCallsInFlight - 1
    /\ IF GetPayloadAnswer(slot, proposerIndex, blockHash, signer).code = 200
       THEN gp' = [gp EXCEPT ![g] = [pc |-> "save", slot |-> slot,
                                     proposerIndex |-> proposerIndex,
                                     proposer |-> GetKnownValidatorPubkeyByIndex(proposerIndex),
                                     blockHash |-> blockHash, signer |-> signer]]
       ELSE gp' = [gp EXCEPT ![g] = IdleGP]
    /\ UNCHANGED <<ffForceGetHeader204, ffForceGetHeader204AtStart, srv, stopServer>>
    /\ UNCHANGED <<regVars, bootVars, dbSubmissions, refreshVars>>
    /\ UNCHANGED <<clockVars, randaoVars, optVars, dbVars, storeVars,
                   slotLastPayloadDelivered, sub, now, maxAccepted, budget>>

\* StopServer, first step: stop sending bids
StopServerDisable ==
    /\ stopServer = "none"
    /\ ffForceGetHeader204' = TRUE
    /\ stopServer' = "wait"
    /\ UNCHANGED <<ffForceGetHeader204AtStart, getPayloadCallsInFlight, srv>>
    /\ UNCHANGED <<regVars, bootVars, dbSubmissions, refreshVars>>
    /\ UNCHANGED <<clockVars, randaoVars, optVars, dbVars, storeVars, payloadVars, sub,
                   now, maxAccepted, budget>>

\* StopServer, after the pause: getPayloadCallsInFlight.Wait() returns
StopServerWait ==
    /\ stopServer = "wait"
    /\ getPayloadCallsInFlight = 0
    /\ stopServer' = "shutdown"
    /\ UNCHANGED <<ffForceGetHeader204, ffForceGetHeader204AtStart, getPayloadCallsInFlight, srv>>
    /\ UNCHANGED <<regVars, bootVars, dbSubmissions, refreshVars>>
    /\ UNCHANGED <<clockVars, randaoVars, optVars, dbVars, storeVars, payloadVars, sub,
                   now, maxAccepted, budget>>

\* StopServer, last step: srv.Shutdown closes the listeners ...
StopServerShutdown ==
    /\ stopServer = "shutdown"
    /\ srv' = "closing"
    /\ stopServer' = "closing"
    /\ UNCHANGED <<ffForceGetHeader204, ffForceGetHeader204AtStart, getPayloadCallsInFlight>>
    /\ UNCHANGED <<regVars, bootVars, dbSubmissions, refreshVars>>
    /\ UNCHANGED <<clockVars, randaoVars, optVars, dbVars, storeVars, payloadVars, sub,
                   now, maxAccepted, budget>>

\* ... and returns once no handler is running
ServerStopped ==
    /\ srv = "closing"
    /\ \A g \in GetPayloadCalls : gp[g].pc # "entered"
    /\ \A h \in Handlers : sub[h].pc \in {"idle", "done"}
    /\ srv' = "stopped"
    /\ stopServer' = "done"
    /\ UNCHANGED <<ffForceGetHeader204, ffForceGetHeader204AtStart, getPayloadCallsInFlight>>
    /\ UNCHANGED <<regVars, bootVars, dbSubmissions, refreshVars>>
    /\ UNCHANGED <<clockVars, randaoVars, optVars, dbVars, storeVars, payloadVars, sub,
                   now, maxAccepted, budget>>

(* ------------------------------- Next ---------------------------------- *)
\* builder submissions served by the handlers Hn, their fields from the sets
SubmissionSteps(Hn, Bs, Ss, Vs, Hs, Ds) ==
    \/ \E h \in Hn, b \in Bs, s \in Ss, v \in Vs, t \in Times, d \in Ds :
          SubmitNewBlock(h, b, s, v, t,
                         IF d = "timestamp" THEN GenesisTime + (s * 12) + 1
                                            ELSE GenesisTime + (s * 12),
                         IF d = "fee_recipient" THEN "f2" ELSE "f1",
                         IF d = "num_tx" THEN 0 ELSE 1,
                         d # "sanity",
                         IF d = "random" THEN GetRandao(s) ELSE GetRandao(s - 1),
                         d # "signature", Hn, Hs)
    \/ \E h \in Hn, e \in SimResults : SubmitSimulate(h, e)
    \/ \E h \in Hn : SubmitStaleCheck(h)
    \/ \E h \in Hn : SubmitWrite(h)

\* builder submissions up to and after their simulation
PipelineSteps(Hn, Bs, Ss, Vs, Hs) ==
    \/ \E h \in Hn, b \in Bs, s \in Ss, v \in Vs, t \in Times :
          SubmitNewBlock(h, b, s, v, t, GenesisTime + (s * 12), "f1", 1, TRUE,
                         GetRandao(s - 1), TRUE, Hn, Hs)
    \/ \E h \in Hn : SubmitStaleCheck(h)
    \/ \E h \in Hn : SubmitWrite(h)

\* simulations, synchronous and optimistic, that the simulator answers
\* with one of the results Es
SimulationSteps(Hn, Es) ==
    \/ \E h \in Hn, e \in Es : SubmitSimulate(h, e)
    \/ \E h \in Hn : OptimisticStart(h)
    \/ \E h \in Hn, e \in Es : OptimisticFinish(h, e)

\* cache errors during the writes of a submission
WriteFailureSteps(Hn) == \E h \in Hn : SubmitWriteFails(h)

\* the goroutines of optimistically accepted submissions
OptimisticSteps(Hn) ==
    \/ \E h \in Hn : OptimisticStart(h)
    \/ \E h \in Hn, e \in SimResults : OptimisticFinish(h, e)

\* the goroutines of optimistically accepted submissions, simulating under
\* the context of their request
OptimisticRequestSteps(Hn) ==
    \/ \E h \in Hn : OptimisticStart(h)
    \/ \E h \in Hn, e \in SimResults \cup {ErrContextCanceled} :
          e \in SendResults(h) /\ OptimisticFinish(h, e)

\* the goroutines a head event spawned
RefreshSteps ==
    \/ \E s \in 0..MaxSlot, f \in BOOLEAN : updatedExpectedRandao(s, f)
    \/ \E s \in Slots : updateOptimisticSlot(s)

\* the proposer-duties goroutines and the housekeeper
DutiesSteps ==
    \/ \E t \in [slot : Slots \cup {DutiesStartSlot} \cup DutySlots, prev : 0..MaxDutySlot] :
          updateProposerDutiesBegin(t)
    \/ \E ok \in BOOLEAN : updateProposerDutiesEnd(ok)
    \/ HousekeeperPublishes

\* the builder-cache goroutines, entry by entry
CacheSteps ==
    \/ \E s \in Slots : updateOptimisticSlotBegin(s)
    \/ \E s \in Slots : updateOptimisticSlotWrite(s)

\* the randao goroutines, with their requests to the beacon node in flight
RandaoSteps ==
    \/ \E s \in 0..MaxSlot : RandaoBegin(s)
    \/ \E s \in 0..MaxSlot, f \in BOOLEAN : RandaoFetched(s, f)

\* head events of the beacon node
HeadSteps(Ss) == \E s \in Ss : processNewSlot(s)

\* the operator's calls of the internal API
OperatorSteps(Bs, Sts) ==
    \E b \in Bs, st \in Sts :
       handleInternalBuilderStatus(b, st.high_prio, st.blacklisted, st.demoted)

\* the operator's calls that set collateral
CollateralSteps(Bs, Ids, Vs) ==
    \E b \in Bs, id \in Ids, v \in Vs : handleInternalBuilderCollateral(b, id, v)

\* proposers' getPayload calls and their background work
GetPayloadSteps(Ss, Is, Hs, Ks) ==
    \/ \E g \in GetPayloadCalls, s \in Ss, i \in Is, bh \in Hs, k \in Ks :
          handleGetPayload(g, s, i, bh, k)
    \/ \E g \in GetPayloadCalls : GetPayloadSave(g)
    \/ \E g \in GetPayloadCalls : GetPayloadRefund(g)

\* getPayload calls whose handler takes time
GetPayloadCallSteps(Ss, Is, Hs, Ks) ==
    \/ \E g \in GetPayloadCalls : GetPayloadEnter(g)
    \/ \E g \in GetPayloadCalls, s \in Ss, i \in Is, bh \in Hs, k \in Ks :
          GetPayloadReturn(g, s, i, bh, k)
    \/ \E g \in GetPayloadCalls : GetPayloadSave(g)
    \/ \E g \in GetPayloadCalls : GetPayloadRefund(g)

\* validators' registration requests and the workers of the two channels
RegistrationSteps(As) ==
    \/ \E elems \in As : handleRegisterValidator(elems)
    \/ RegisterElement
    \/ RegisterDone
    \/ ActiveValidatorProcessor
    \/ ValidatorRegistrationDBProcessor

\* relay instances starting against the shared cache
BootSteps(Ks) ==
    \/ \E i \in Instances, builderAPI \in BOOLEAN, k \in Ks : NewRelayAPIGetConfig(i, builderAPI, k)
    \/ \E i \in Instances : NewRelayAPICheckConfig(i)

\* the operator stops the relay
ShutdownSteps ==
    \/ StopServerDisable
    \/ StopServerWait
    \/ StopServerShutdown
    \/ ServerStopped

\* the relay with every kind of request: builder b1 submits for slots 2
\* and 3, the head moves to slot 2, the operator changes the builder's
\* status, the proposer fetches a payload
Next ==
    \/ SubmissionSteps({1}, {"b1"}, SubmissionSlots, Values, {"h1"}, {"none"})
    \/ OptimisticSteps({1})
    \/ RefreshSteps
    \/ HeadSteps({2})
    \/ OperatorSteps({"b1"}, OperatorStatuses)
    \/ GetPayloadSteps(SubmissionSlots, {1}, {"h1"}, {"p1"})

Spec == Init /\ [][Next]_vars

(* ---------------- builders racing for one slot (no proposer yet) -------- *)
\* two handlers serve the submissions of both builders for slot 2
InitRace == InitWith([submissions |-> MaxSubmissions, operator |-> 0, headEvents |-> 0,
                      getPayloads |-> 0, fetchFailures |-> 0])

NextRace ==
    \/ SubmissionSteps(Handlers, Builders, {2}, Values, BlockHashes, {"none"})
    \/ OptimisticSteps(Handlers)
    \/ RefreshSteps

SpecRace == InitRace /\ [][NextRace]_vars

\* no submission for the tuple is between its arrival and its answer
Quiescent(slot, parent, proposer) ==
    \A h \in Handlers :
        sub[h].pc \in {"sim", "stale", "write"} =>
            <<sub[h].slot, sub[h].parent, sub[h].proposer>> # <<slot, parent, proposer>>

\* C1: for every tuple with no submission in progress, getHeader answers
\* with the bid of maximum value among the retained bids, and the bid
\* retained for each builder is the builder's latest accepted submission
\* by arrival time.
C1_TopBidOfLatestBids ==
    \A k \in TupleKeys :
        Quiescent(k[1], k[2], k[3]) =>
            LET bids == BuilderBids(latestBids, k[1], k[2], k[3])
                answer == handleGetHeader(k[1], k[2], k[3])
            IN /\ bids # {} =>
                    /\ answer.code = 200
                    /\ answer.bid \in bids
                    /\ \A d \in bids : answer.bid.value >= d.value
               /\ \A b \in Builders :
                    latestBids[<<k[1], k[2], k[3], b>>].receivedAt
                        = maxAccepted[<<k[1], k[2], k[3], b>>]

\* C5: in every state, also between the cache writes of a submission, each
\* retained builder bid and each top bid has its execution payload and its
\* bid trace stored under (slot, proposer, block hash).
C5_RetainedBidsHaveBlobs ==
    /\ \A k \in BidKeys :
          latestBids[k] # NoBid =>
             /\ <<k[1], k[3], latestBids[k].blockHash>> \in executionPayloads
             /\ bidTraces[<<k[1], k[3], latestBids[k].blockHash>>] # NoBid
    /\ \A k \in TupleKeys :
          topBids[k] # NoBid =>
             /\ <<k[1], k[3], topBids[k].blockHash>> \in executionPayloads
             /\ bidTraces[<<k[1], k[3], topBids[k].blockHash>>] # NoBid

\* a submission has written its builder bid and not yet updated the top bid,
\* while another submission is writing its blobs
C5_Witness ==
    \E h1, h2 \in Handlers :
        /\ sub[h1].pc = "write" /\ CacheWriteOrder[sub[h1].wi] = "top"
        /\ sub[h2].pc = "write" /\ CacheWriteOrder[sub[h2].wi] = "payload"
        /\ latestBids[<<sub[h1].slot, sub[h1].parent, sub[h1].proposer,
                        sub[h1].builder>>] # NoBid

\* C10: the submissions of one builder for one tuple are applied to the
\* bid store in arrival order: no write of the builder's bid replaces a
\* bid received later than the one written.
C10_AppliedInArrivalOrder ==
    [][\A k \in BidKeys : latestBids'[k].receivedAt >= latestBids[k].receivedAt]_vars

\* C6: a submission reaching the branch is handled optimistically (goroutine
\* spawned, cache writes next) if and only if the builder's collateral is
\* strictly greater than the value, the builder is not demoted and the slot
\* is the optimistic slot; any other submission is simulated before it
\* reaches a cache write.
C6_OptimisticIff ==
    [][/\ \A h \in Handlers :
             (sub[h] = IdleSub /\ sub'[h] # IdleSub) =>
                LET entry == blockBuildersCache[sub'[h].builder] IN
                /\ sub'[h].optimistic <=>
                      /\ entry.collateral > sub'[h].value
                      /\ ~entry.demoted
                      /\ sub'[h].slot = optimisticSlot
                /\ sub'[h].optimistic => sub'[h].opt = "spawned" /\ sub'[h].pc = "stale"
                /\ ~sub'[h].optimistic => sub'[h].opt = "none" /\ sub'[h].pc = "sim"
       /\ \A h \in Handlers :
             (sub'[h].pc \in {"stale", "write"} /\ ~sub'[h].optimistic) => sub'[h].simulated
      ]_vars

\* an optimistic submission writes the cache while its simulation runs, and
\* the builder's next submission, of a value the collateral does not cover,
\* was simulated first
C6_Witness ==
    \E h \in Handlers :
        /\ sub[h].pc = "write" /\ ~sub[h].optimistic /\ sub[h].simulated
        /\ sub[h].value >= blockBuildersCache[sub[h].builder].collateral
        /\ \E k \in BidKeys : latestBids[k] # NoBid /\ latestBids[k].value = 1

\* C7: a submission arriving while the demotion step has persisted the
\* builder's demoted bit (and no operator has cleared it) takes the
\* synchronous path.
C7_DemotedTakesSyncPath ==
    \A h \in Handlers : (sub[h] # IdleSub /\ sub[h].demotedBefore) => ~sub[h].optimistic

\* C8: no step of the pipeline sets a persisted demoted bit back to false;
\* a step that clears it is a call of the operator's builder-status API.
C8_DemotedMonotone ==
    [][\A b \in Builders :
          (dbBuilders[b].demoted /\ ~dbBuilders'[b].demoted) =>
              budget'.operator < budget.operator]_vars

\* the builder was demoted by the pipeline, and afterwards a slot tick
\* refreshed the cache and a further submission of the builder was served
C8_Witness ==
    /\ dbBuilders["b1"].demoted
    /\ \E r \in dbDemotions : r.builder = "b1"
    /\ blockBuildersCache["b1"].demoted
    /\ budget.operator = MaxOperatorCalls
    /\ sub[1].pc = "write" /\ sub[1].demotedBefore

\* the keys of the rows of the demotions table
DemotionKeys(rows) == {<<r.slot, r.builder, r.blockHash>> : r \in rows}

\* C9: when the simulation of an optimistically accepted submission fails,
\* the builder's demoted bit is true in the durable store afterwards and
\* the demotions table holds a row for (slot, builder, block hash), which
\* carries the submission and the error when the key had no row before; no
\* other step of the pipeline sets a demoted bit or inserts a demotion row.
C9_DemotionOnFailedOptimistic ==
    [][/\ \A h \in Handlers, e \in SimResults :
             (OptimisticFinish(h, e) /\ e \notin {"", ErrBlockAlreadyKnown}) =>
                 /\ sub[h].optimistic
                 /\ dbBuilders'[sub[h].builder].demoted
                 /\ \E r \in dbDemotions' :
                       /\ r.slot = sub[h].slot /\ r.builder = sub[h].builder
                       /\ r.blockHash = sub[h].blockHash
                       /\ r.simError # ""
                       /\ <<r.slot, r.builder, r.blockHash>> \notin DemotionKeys(dbDemotions)
                             => r.value = sub[h].value /\ r.simError = e
       /\ (\/ DemotionKeys(dbDemotions') # DemotionKeys(dbDemotions)
           \/ /\ budget'.operator = budget.operator
              /\ \E b \in Builders : ~dbBuilders[b].demoted /\ dbBuilders'[b].demoted)
          => \E h \in Handlers, e \in SimResults :
                /\ OptimisticFinish(h, e) /\ e \notin {"", ErrBlockAlreadyKnown}
                /\ sub[h].optimistic
      ]_vars

\* a failed optimistic simulation has demoted the builder
C9_Witness ==
    \E r \in dbDemotions :
        /\ dbBuilders[r.builder].demoted
        /\ r.simError = "invalid block"
        /\ budget.operator = MaxOperatorCalls

(* ---------------- two builders and the proposer of slot 2 --------------- *)
\* both builders bid for slot 2 and a getPayload request arrives, signed or
\* not by the proposer it names
InitDelivery == InitWith([submissions |-> MaxSubmissions, operator |-> 0,
                          headEvents |-> 0, getPayloads |-> MaxGetPayloads,
                          fetchFailures |-> MaxFetchFailures])

NextDelivery ==
    \/ SubmissionSteps({1}, Builders, {2}, Values, BlockHashes, Defects)
    \/ OptimisticSteps({1})
    \/ RefreshSteps
    \/ GetPayloadSteps({2}, ValidatorIndexes, BlockHashes, Signers)

SpecDelivery == InitDelivery /\ [][NextDelivery]_vars

\* C3: getPayload answers with a payload only when the signature verifies
\* against the pubkey of the request's proposer index; a request with an
\* unknown index or a signature of another key is answered 400, and only the
\* goroutine of an answered request sets slot_last_payload_delivered or
\* writes a delivered-payload row.
C3_PayloadOnlyAfterSignature ==
    [][/\ \A g \in GetPayloadCalls :
             gp'[g].pc # "idle" =>
                /\ gp'[g].proposerIndex \in KnownValidatorIndexes
                /\ gp'[g].proposer = GetKnownValidatorPubkeyByIndex(gp'[g].proposerIndex)
                /\ gp'[g].signer = gp'[g].proposer
       /\ \A s \in Slots, i \in ValidatorIndexes, bh \in BlockHashes, k \in Signers :
             (i \notin KnownValidatorIndexes \/ k # GetKnownValidatorPubkeyByIndex(i)) =>
                GetPayloadAnswer(s, i, bh, k).code = 400
       /\ (\/ slotLastPayloadDelivered' # slotLastPayloadDelivered
           \/ dbDeliveredPayloads' # dbDeliveredPayloads) =>
             \E g \in GetPayloadCalls :
                /\ gp[g].pc = "save" /\ gp'[g].pc = "refund"
                /\ gp[g].signer = gp[g].proposer
                /\ slotLastPayloadDelivered' = gp[g].slot
                /\ \E r \in dbDeliveredPayloads' :
                      /\ r.slot = gp[g].slot /\ r.proposer = gp[g].proposer
                      /\ r.blockHash = gp[g].blockHash
      ]_vars

\* a payload was delivered to the proposer that signed for it and recorded
C3_Witness ==
    /\ \E r \in dbDeliveredPayloads : r.slot = slotLastPayloadDelivered /\ r.proposer = "p1"
    /\ \E g \in GetPayloadCalls : gp[g].pc = "refund" /\ gp[g].signer = "p1"

\* C4: every payload getPayload has answered with belongs to a bid that was
\* published as the top bid of its slot and proposer, with that block hash
\* and that value.
C4_DeliveredWasTopBid ==
    \A g \in GetPayloadCalls :
        gp[g].pc # "idle" =>
            <<gp[g].slot, gp[g].proposer, gp[g].blockHash,
              bidTraces[<<gp[g].slot, gp[g].proposer, gp[g].blockHash>>].value>>
                \in topHistory

(* ------------- one builder and the proposers of two slots --------------- *)
\* builder b1 bids for slots 2 and 3; the proposers fetch their payloads
InitGate == InitWith([submissions |-> MaxSubmissions + 1, operator |-> 0,
                      headEvents |-> 0, getPayloads |-> MaxGetPayloads + 1,
                      fetchFailures |-> MaxFetchFailures])

NextGate ==
    \/ SubmissionSteps({1}, {"b1"}, SubmissionSlots, {MaxValue}, {"h1"}, Defects)
    \/ RefreshSteps
    \/ GetPayloadSteps(SubmissionSlots, {1}, {"h1"}, {"p1"})

SpecGate == InitGate /\ [][NextGate]_vars

\* C2: a submission that arrived after a payload was recorded as delivered
\* for slot s, with a slot of at most s, is not past the gate: every
\* submission in the pipeline is for a slot above every slot delivered
\* before its arrival.
C2_DeliveredSlotsStayClosed ==
    \A h \in Handlers : sub[h] # IdleSub => sub[h].slot > sub[h].deliveredBefore

(* ----------------------- submission round trip -------------------------- *)
\* handler h answers 200 in this step: its last cache write is done
Answers200(h) ==
    /\ sub[h].pc = "write"
    /\ sub[h].wi = Len(CacheWriteOrder)
    /\ sub'[h].pc # "write"

TopIsMax(slot, parent, proposer) ==
    LET cands == BuilderBids(latestBids, slot, parent, proposer) IN
    /\ cands # {}
    /\ topBids[<<slot, parent, proposer>>] # NoBid
    /\ \A d \in cands : d.value <= topBids[<<slot, parent, proposer>>].value

\* the store still holds what the accepted submission wrote
StillStored(s) ==
    /\ Content(latestBids[<<s.slot, s.parent, s.proposer, s.builder>>]) = [builder |-> s.builder, value |-> s.value, blockHash |-> s.blockHash]
    /\ Content(bidTraces[<<s.slot, s.proposer, s.blockHash>>]) = [builder |-> s.builder, value |-> s.value, blockHash |-> s.blockHash]
    /\ <<s.slot, s.proposer, s.blockHash>> \in executionPayloads

\* C12: every step of a handler that replays an already accepted submission
\* (same builder, tuple, block hash and value), taken while the store holds
\* what that submission wrote, leaves the builder's retained bid, the trace
\* and payload blobs and the value of the top bid as they were; only the
\* time of receipt may change.
C12_ReplayIdempotent ==
    [][\A h \in Handlers :
          (sub[h].replay /\ sub[h].pc = "write" /\ sub'[h] # sub[h] /\ StillStored(sub[h])) =>
             LET s == sub[h]
                 key == <<s.slot, s.parent, s.proposer, s.builder>>
                 blob == <<s.slot, s.proposer, s.blockHash>>
                 tuple == <<s.slot, s.parent, s.proposer>>
             IN /\ Content(latestBids'[key]) = Content(latestBids[key])
                /\ Content(bidTraces'[blob]) = Content(bidTraces[blob])
                /\ executionPayloads' = executionPayloads
                /\ TopIsMax(s.slot, s.parent, s.proposer) =>
                      topBids'[tuple].value = topBids[tuple].value
      ]_vars

\* a replayed submission has done its writes up to the top-bid update
C12_Witness ==
    \E h \in Handlers :
       /\ sub[h].replay
       /\ sub[h].pc = "write"
       /\ sub[h].wi = Len(CacheWriteOrder)
       /\ sub[h].value > 0
       /\ latestBids[<<sub[h].slot, sub[h].parent, sub[h].proposer, sub[h].builder>>].receivedAt = sub[h].receivedAt
       /\ maxAccepted[<<sub[h].slot, sub[h].parent, sub[h].proposer, sub[h].builder>>] < sub[h].receivedAt

(* ---------------------- failed synchronous simulation ------------------- *)
\* C13: on the synchronous path a submission whose simulation fails is
\* answered 400, its handler ends there, and the step writes nothing to the
\* bid store: no trace, no payload, no latest bid, the top bid unchanged.
C13_FailedSimulationWritesNothing ==
    [][\A h \in Handlers, e \in SimResults \ {"", ErrBlockAlreadyKnown} :
          SubmitSimulate(h, e) =>
             /\ SimulateAnswer(e).code = 400
             /\ sub'[h] = IdleSub
             /\ UNCHANGED <<bidTraces, executionPayloads, latestBids, topBids>>
      ]_vars

\* every submission let in so far failed its synchronous simulation: the
\* handlers are done and the bid store is empty
C13_Witness ==
    /\ budget.submissions = 0
    /\ \A h \in Handlers : sub[h] = IdleSub
    /\ dbDemotions = {}
    /\ executionPayloads = {}
    /\ \A k \in BidKeys : latestBids[k] = NoBid
    /\ \A k \in TupleKeys : topBids[k] = NoBid
    /\ \A k \in BlobKeys : bidTraces[k] = NoBid

(* ------------------------------ shutdown -------------------------------- *)
\* the relay is stopped while builder b1 submits for slot 2 or 3, the head
\* moves to slot 2 and proposers fetch headers and payloads; it may have
\* been started with FORCE_GET_HEADER_204
InitShutdown ==
    \E force204 \in BOOLEAN :
       InitEnv([submissions |-> MaxSubmissions - 1, operator |-> 0,
                headEvents |-> MaxHeadEvents, getPayloads |-> MaxGetPayloads + 1,
                fetchFailures |-> 0], force204, FALSE)

NextShutdown ==
    \/ SubmissionSteps({1}, {"b1"}, SubmissionSlots, {MaxValue}, {"h1"}, {"none"})
    \/ RefreshSteps
    \/ HeadSteps({2})
    \/ GetPayloadCallSteps(SubmissionSlots, {1}, {"h1"}, Signers)
    \/ ShutdownSteps

SpecShutdown == InitShutdown /\ [][NextShutdown]_vars

\* C17: getHeader returns no bid when the slot is below the head slot (400),
\* when the handler finds the kill switch set (204), when the tuple has no
\* top bid (204) and when the top bid has value zero (204); in every other
\* case it returns exactly the stored top bid.
C17_GetHeaderGates ==
    \A k \in TupleKeys, f \in ReadsOfForceGetHeader204 :
       LET r == handleGetHeaderReading(f, k[1], k[2], k[3])
           top == topBids[k]
           silent == f \/ top = NoBid \/ top.value = 0
       IN /\ k[1] < headSlot => r = [code |-> 400, bid |-> NoBid]
          /\ (k[1] >= headSlot /\ silent) => r = [code |-> 204, bid |-> NoBid]
          /\ (k[1] >= headSlot /\ ~silent) => r = [code |-> 200, bid |-> top]

\* a relay started with the kill switch set holds a top bid for the head
\* slot, slot 1 is past
C17_Witness ==
    /\ ffForceGetHeader204AtStart
    /\ headSlot = 2
    /\ topBids[<<2, "pa", "p1">>] # NoBid
    /\ topBids[<<2, "pa", "p1">>].value > 0
    /\ handleGetHeader(2, "pa", "p1").code = 204
    /\ handleGetHeader(1, "pa", "p1").code = 400

\* C19: once StopServer has set the kill switch no getHeader started
\* afterwards returns a bid, and the HTTP server is stopped only when no
\* getPayload call is in flight.
C19_ShutdownOrder ==
    /\ stopServer # "none" =>
          \A k \in TupleKeys : \A r \in GetHeaderResponses(k[1], k[2], k[3]) : r.bid = NoBid
    /\ srv = "stopped" =>
          /\ getPayloadCallsInFlight = 0
          /\ \A g \in GetPayloadCalls : gp[g].pc # "entered"

(* ------------------------- refused builders ----------------------------- *)
\* the operator blacklists builder b1 or the relay runs with
\* DISABLE_LOWPRIO_BUILDERS, while b1 submits for slots 2 and 3
InitRefuse ==
    \E disableLowPrio \in BOOLEAN :
       InitEnv([submissions |-> MaxSubmissions, operator |-> MaxOperatorCalls,
                headEvents |-> MaxHeadEvents, getPayloads |-> 0, fetchFailures |-> 0],
               FALSE, disableLowPrio)

NextRefuse ==
    \/ SubmissionSteps({1}, {"b1"}, SubmissionSlots, Values, {"h1"}, {"none"})
    \/ OptimisticSteps({1})
    \/ RefreshSteps
    \/ HeadSteps({2})
    \/ OperatorSteps({"b1"}, OperatorStatuses)

SpecRefuse == InitRefuse /\ [][NextRefuse]_vars

\* the cached status that makes the relay drop the builder's submissions
Refused(builder) ==
    \/ blockBuildersCache[builder].blacklisted
    \/ ffDisableLowPrioBuilders /\ ~blockBuildersCache[builder].high_prio

\* C18: a submission of a blacklisted builder, or of a builder that is not
\* high-prio while low-prio builders are disabled, that passes the slot
\* gate, the timestamp check and the duty match is answered 200 and does no
\* work: no simulation starts, nothing is written to the bid store, no
\* submission row is persisted.
C18_RefusedBuilderNoWork ==
    [][\A h \in Handlers, b \in Builders, s \in SubmissionSlots, v \in Values, t \in Times :
          (/\ SubmitNewBlock(h, b, s, v, t, GenesisTime + (s * 12), "f1", 1, TRUE, GetRandao(s - 1), TRUE, {1}, {"h1"})
           /\ Refused(b)) =>
             /\ CheckSubmission(s, v, blockBuildersCache[b], GenesisTime + (s * 12), "f1", 1, TRUE, GetRandao(s - 1), TRUE).code = 200
             /\ UNCHANGED <<sub, optimisticBlocks, dbSubmissions, dbDemotions>>
             /\ UNCHANGED <<bidTraces, executionPayloads, latestBids, topBids>>
      ]_vars

\* low-prio builders are disabled and b1 was never high-prio: its submission
\* for slot 3 was turned away after it had started the randao refresh of
\* slot 2 (no head event did), and nothing was stored
C18_Witness ==
    /\ Refused("b1")
    /\ budget.operator = MaxOperatorCalls
    /\ budget.headEvents = MaxHeadEvents
    /\ budget.submissions = MaxSubmissions
    /\ 2 \in randaoTasks
    /\ sub[1] = IdleSub
    /\ dbSubmissions = {}
    /\ executionPayloads = {}

(* ------------------------ refund justification -------------------------- *)
\* builder b1 submits one block of value 1 for slot 2, below its collateral,
\* and the proposer of slot 2 fetches the payload; every goroutine that can
\* run does run
InitRefund ==
    InitWith([submissions |-> MaxSubmissions - 1, operator |-> 0, headEvents |-> 0,
              getPayloads |-> MaxGetPayloads, fetchFailures |-> 0])

NextRefund ==
    \/ SubmissionSteps({1}, {"b1"}, {2}, {1}, {"h1"}, {"none"})
    \/ OptimisticSteps({1})
    \/ RefreshSteps
    \/ GetPayloadSteps({2}, {1}, {"h1"}, {"p1"})

SpecRefund == InitRefund /\ [][NextRefund]_vars /\ WF_vars(NextRefund)

\* the demotion row of (slot, builder, blockHash), if any
DemotionRows(slot, builder, blockHash) ==
    {r \in dbDemotions : r.slot = slot /\ r.builder = builder /\ r.blockHash = blockHash}

\* the block (slot, builder, blockHash) was delivered by getPayload
Delivered(slot, builder, blockHash) ==
    \E r \in dbDeliveredPayloads : r.slot = slot /\ r.builder = builder /\ r.blockHash = blockHash

\* C14: when getPayload has delivered a block that was accepted
\* optimistically and whose simulation failed, the demotion row of the
\* submission eventually holds the proposer's signed beacon block and the
\* validator's signed registration; the two fields are empty when the row
\* is inserted and stay empty until they are filled together.
C14_RefundEventuallyJustified ==
    /\ \A s \in Slots, b \in Builders, bh \in BlockHashes :
          (Delivered(s, b, bh) /\ DemotionRows(s, b, bh) # {}) ~>
             (\E r \in DemotionRows(s, b, bh) :
                 r.signed_beacon_block # "" /\ r.signed_validator_registration # "")
    /\ [](\A r \in dbDemotions :
             (r.signed_beacon_block = "") = (r.signed_validator_registration = ""))

(* ---------------------------- registration ------------------------------ *)
\* validators send arrays of registrations while the workers drain the channels
InitRegister ==
    InitWith([submissions |-> 0, operator |-> 0, headEvents |-> 0, getPayloads |-> 0,
              fetchFailures |-> 0, registrations |-> MaxRegistrationCalls])

NextRegister == RegistrationSteps(RegArrays)

SpecRegister == InitRegister /\ [][NextRegister]_vars

C16_NothingEnqueuedAfterReject ==
    [][(reg.pc = "each" /\ reg'.pc = "each" /\ reg'.i > reg.i) =>
          /\ reg.code = 400 =>
                /\ validatorRegC' = validatorRegC
                /\ activeValidatorC' = activeValidatorC
          /\ Len(validatorRegC') >= Len(validatorRegC)
          /\ Len(activeValidatorC') >= Len(activeValidatorC)
      ]_vars

(* ------------------------------ startup --------------------------------- *)
\* the instances start, each with one of the keys, while validators register
InitBoot ==
    InitWith([submissions |-> 0, operator |-> 0, headEvents |-> 0, getPayloads |-> 0,
              fetchFailures |-> 0, registrations |-> 0])

NextBoot == BootSteps(RelayKeys)

SpecBoot == InitBoot /\ [][NextBoot]_vars

\* C20: the instances that have started with the builder API enabled all
\* sign with the recorded key: an instance whose key differs from the
\* recorded one fails to start, also when several start at the same time
\* against an empty config.
C20_OneKeyAcrossInstances ==
    \A i \in Instances :
       (instance[i].pc = "started" /\ instance[i].builderAPI) =>
          /\ instance[i].key = relayConfigPubkey
          /\ \A j \in Instances :
                (instance[j].pc = "started" /\ instance[j].builderAPI) =>
                   instance[j].key = instance[i].key

(* --------------------------- builder status ----------------------------- *)
\* the collateral ids the operator assigns; "" is no id
CollateralIds == {"", "c1", "c2"}

\* the operator assigns collateral and sets status bits
InitStatus ==
    InitWith([submissions |-> 0, operator |-> MaxOperatorCalls + 2, headEvents |-> 0,
              getPayloads |-> 0, fetchFailures |-> 0])

NextStatus ==
    \/ CollateralSteps(Builders, CollateralIds, 1..MaxValue)
    \/ OperatorSteps(Builders, OperatorStatuses)

SpecStatus == InitStatus /\ [][NextStatus]_vars

\* C21: a status call sets the three bits on the named builder and on every
\* builder sharing its non-empty collateral id, and leaves every builder
\* with a different or an empty collateral id as it was.
C21_StatusByCollateralId ==
    [][\A p \in Builders, st \in OperatorStatuses :
          handleInternalBuilderStatus(p, st.high_prio, st.blacklisted, st.demoted) =>
             \A b \in Builders :
                IF \/ b = p
                   \/ /\ dbBuilders[p].collateral_id # ""
                      /\ dbBuilders[b].collateral_id = dbBuilders[p].collateral_id
                THEN /\ CachedStatus(dbBuilders'[b]) = st
                     /\ dbBuilders'[b].collateral_id = dbBuilders[b].collateral_id
                     /\ dbBuilders'[b].collateral = dbBuilders[b].collateral
                ELSE dbBuilders'[b] = dbBuilders[b]
      ]_vars

\* both builders share a collateral id and one call has blacklisted both
C21_Witness ==
    /\ dbBuilders["b1"].collateral_id = "c1"
    /\ dbBuilders["b2"].collateral_id = "c1"
    /\ dbBuilders["b1"].blacklisted /\ dbBuilders["b2"].blacklisted
    /\ budget.operator = 0

(* ----------------------- registration rows ------------------------------ *)
\* registrations of validator p2 with either fee recipient and gas limit
SaveElements == [pubkey : {"p2"}, timestamp : {1, 2}, defect : {"none"}, fee_recipient : {"f1", "f2"}, gas_limit : {1, 2}]
SaveArrays == UNION {[1..n -> SaveElements] : n \in 1..MaxRegistrations}

InitSave ==
    InitWith([submissions |-> 0, operator |-> 0, headEvents |-> 0, getPayloads |-> 0,
              fetchFailures |-> 0, registrations |-> MaxRegistrationCalls])

NextSave == RegistrationSteps(SaveArrays)

SpecSave == InitSave /\ [][NextSave]_vars

\* C22: a save for a validator that already has a stored registration
\* stores the new one if and only if its timestamp is strictly greater than
\* the stored one and its fee recipient or gas limit differs; otherwise the
\* registration returned for the validator is unchanged.
C22_StoredIffNewerAndChanged ==
    [][ValidatorRegistrationDBProcessor =>
          LET e == Head(validatorRegC)
              row == dbValidatorRegistrations[e.pubkey]
              new == [timestamp |-> e.timestamp, fee_recipient |-> e.fee_recipient,
                      gas_limit |-> e.gas_limit]
          IN row # NoRegistration =>
                dbValidatorRegistrations'[e.pubkey] =
                   IF /\ e.timestamp > row.timestamp
                      /\ \/ e.fee_recipient # row.fee_recipient
                         \/ e.gas_limit # row.gas_limit
                   THEN new ELSE row
      ]_vars

\* a newer registration of p2 with the stored fee recipient and gas limit
\* was saved: the cache has its timestamp, the row is still the first one
C22_Witness ==
    /\ dbValidatorRegistrations["p2"] # NoRegistration
    /\ dbValidatorRegistrations["p2"].timestamp = 1
    /\ validatorRegistrations["p2"] = 2

(* ------------------- simulation and request lifetime -------------------- *)
\* builder b1 submits for the optimistic slot; the handlers answer while
\* the simulations run
InitContext ==
    InitWith([submissions |-> MaxSubmissions, operator |-> 0, headEvents |-> 0,
              getPayloads |-> 0, fetchFailures |-> 0])

NextContext ==
    \/ SubmissionSteps(Handlers, {"b1"}, {2}, {1}, BlockHashes, {"none"})
    \/ OptimisticRequestSteps(Handlers)
    \/ RefreshSteps

SpecContext == InitContext /\ [][NextContext]_vars

\* C23: the end of the request never makes an optimistic simulation fail: a
\* builder is demoted only with an error the simulator itself returned.
C23_DemotedOnlyBySimulator ==
    \A r \in dbDemotions : r.simError \in SimResults

(* ------------------------ optimistic-slot barrier ----------------------- *)
\* C24: the optimistic slot does not move while a simulation that a handler
\* has scheduled for it, started or not, is outstanding.
C24_NoAdvancePastOutstanding ==
    [][optimisticSlot' # optimisticSlot =>
          \A h \in Handlers :
             ~(/\ sub[h].optimistic
               /\ sub[h].opt \in {"spawned", "running"}
               /\ sub[h].slot = optimisticSlot)
      ]_vars

(* ----------------------- payloads and their bids ------------------------ *)
\* builder b1 submits block h1 for slot 2, the cache may fail during the
\* writes, the proposer asks for the payload of h1
InitPayload ==
    InitWith([submissions |-> MaxSubmissions, operator |-> 0, headEvents |-> 0,
              getPayloads |-> MaxGetPayloads, fetchFailures |-> 0])

NextPayload ==
    \/ SubmissionSteps(Handlers, {"b1"}, {2}, Values, {"h1"}, {"none"})
    \/ WriteFailureSteps(Handlers)
    \/ RefreshSteps
    \/ GetPayloadSteps({2}, {1}, {"h1"}, {"p1"})

SpecPayload == InitPayload /\ [][NextPayload]_vars

\* some builder's retained bid for the slot and proposer is this block.
\* Bids are only ever replaced by the builder's next bid, and every bid
\* here is for the one block h1: a bid retained once is retained now.
Retained(slot, proposer, blockHash) ==
    \E k \in BidKeys :
       /\ k[1] = slot /\ k[3] = proposer
       /\ latestBids[k] # NoBid
       /\ latestBids[k].blockHash = blockHash

\* a handler is between its first cache write and its answer for this block
Writing(slot, proposer, blockHash) ==
    \E h \in Handlers :
       /\ sub[h].pc = "write"
       /\ sub[h].slot = slot /\ sub[h].proposer = proposer /\ sub[h].blockHash = blockHash

\* C25: a payload getPayload has answered with belongs to a bid that was
\* retained as some builder's latest bid, once no submission of that block
\* is still writing.
C25_DeliveredWasRetained ==
    \A g \in GetPayloadCalls :
       (gp[g].pc # "idle" /\ ~Writing(gp[g].slot, gp[g].proposer, gp[g].blockHash)) =>
          Retained(gp[g].slot, gp[g].proposer, gp[g].blockHash)

(* -------------------- registrations and signatures ---------------------- *)
\* C26: an element is put on the registration-persist channel only when its
\* signature verified, and a stored registration is only ever replaced by
\* the element at the head of that channel: an element whose verification
\* failed or gave an error is never persisted.
C26_OnlyVerifiedPersisted ==
    [][/\ Len(validatorRegC') > Len(validatorRegC) =>
             /\ reg.pc = "each"
             /\ SignatureOf(reg.elems[reg.i]) = "valid"
             /\ validatorRegC'[Len(validatorRegC')].signature = "valid"
             /\ validatorRegC'[Len(validatorRegC')].pubkey = reg.elems[reg.i].pubkey
             /\ validatorRegC'[Len(validatorRegC')].timestamp = reg.elems[reg.i].timestamp
       /\ \A i \in 1..Len(validatorRegC) : validatorRegC[i].signature = "valid"
       /\ \A v \in Proposers :
             dbValidatorRegistrations'[v] # dbValidatorRegistrations[v] =>
                /\ validatorRegC # <<>>
                /\ Head(validatorRegC).pubkey = v
                /\ Head(validatorRegC).signature = "valid"
                /\ dbValidatorRegistrations'[v].timestamp = Head(validatorRegC).timestamp
      ]_vars

\* of an array of two, the first element (timestamp 2) failed verification
\* and the second (timestamp 1) is the only one on the channel
C26_Witness ==
    /\ reg.pc = "each" /\ Len(reg.elems) = 2 /\ reg.i = 3
    /\ reg.elems[1].defect = "signature" /\ reg.elems[1].timestamp = 2
    /\ reg.elems[1].pubkey = "p2"
    /\ reg.elems[2].defect = "none" /\ reg.elems[2].timestamp = 1
    /\ Len(validatorRegC) = 1
    /\ validatorRegC[1].timestamp = 1
    /\ dbValidatorRegistrations["p2"] = NoRegistration

(* ------------------------- active validators --------------------------- *)
\* the element the callback is at passes the checks made before the send to
\* the active-validator channel
PassesEarlyChecks ==
    LET e == reg.elems[reg.i] IN
    /\ ~reg.stopped
    /\ e.defect # "malformed"
    /\ e.timestamp <= reg.start + RegistrationWindow
    /\ e.pubkey \in Proposers

\* C27 as stated: every element that passes the future-timestamp and
\* known-validator checks is enqueued to the active-validator channel,
\* whatever its stored timestamp and its signature.
C27_ActiveAlwaysEnqueued ==
    [][(RegisterElement /\ PassesEarlyChecks) =>
          activeValidatorC' = Append(activeValidatorC, reg.elems[reg.i].pubkey)
      ]_vars

\* C27, amended: such an element is sent to the active-validator channel
\* before the stored timestamp is compared and the signature verified; it
\* is enqueued unless the channel is full, and then it is dropped.
C27_ActiveSentBeforeChecks ==
    [][(RegisterElement /\ PassesEarlyChecks) =>
          /\ Len(activeValidatorC) < ChannelCapacity =>
                activeValidatorC' = Append(activeValidatorC, reg.elems[reg.i].pubkey)
          /\ Len(activeValidatorC) >= ChannelCapacity =>
                activeValidatorC' = activeValidatorC
      ]_vars

\* the only element processed had an invalid signature: its validator is on
\* the active-validator channel, nothing is on the registration channel
C27_Witness ==
    /\ reg.pc = "each" /\ reg.i = 2
    /\ reg.elems[1].defect = "signature"
    /\ activeValidatorC = <<reg.elems[1].pubkey>>
    /\ validatorRegC = <<>>
    /\ activeValidators = {}
    /\ budget.registrations = MaxRegistrationCalls - 1

(* ------------------------------ head slot ------------------------------- *)
\* head events for any slot, in any order, and the refreshes they spawn
InitHead ==
    InitWith([submissions |-> 0, operator |-> 0, headEvents |-> MaxHeadEvents + 2,
              getPayloads |-> 0, fetchFailures |-> MaxFetchFailures])

NextHead ==
    \/ HeadSteps(Slots)
    \/ RefreshSteps

SpecHead == InitHead /\ [][NextHead]_vars

\* C28: the head slot only ever increases; an event with a slot above it
\* sets it to that slot and spawns the refreshes for that slot; an event
\* with a slot not above it changes nothing and spawns nothing.
C28_HeadSlotStrictlyIncreasing ==
    [][/\ headSlot' # headSlot => headSlot' > headSlot
       /\ \A s \in Slots :
             processNewSlot(s) =>
                IF s > headSlot
                THEN /\ headSlot' = s
                     /\ s \in randaoTasks'
                     /\ s \in optimisticSlotTasks'
                ELSE UNCHANGED <<clockVars, randaoVars, optVars, dbVars, storeVars,
                                 payloadVars, sub, now, maxAccepted, auxVars>>
      ]_vars

\* the head reached slot 3 and a later event for an older slot was ignored
C28_Witness ==
    /\ headSlot = MaxSlot
    /\ budget.headEvents = 0
    /\ randaoTasks = {}
    /\ optimisticSlotTasks = {}
    /\ optimisticSlot = MaxSlot + 1

(* ------------------------------- randao -------------------------------- *)
\* head events and submissions spawn randao updates that run concurrently
InitRandao ==
    InitWith([submissions |-> MaxSubmissions - 1, operator |-> 0,
              headEvents |-> MaxHeadEvents + 1, getPayloads |-> 0,
              fetchFailures |-> MaxFetchFailures])

NextRandao ==
    \/ SubmissionSteps({1}, {"b1"}, SubmissionSlots, {MaxValue}, {"h1"}, {"none"})
    \/ HeadSteps(SubmissionSlots)
    \/ RandaoSteps

SpecRandao == InitRandao /\ [][NextRandao]_vars

\* C29: the slot of the expected randao never decreases: the randao
\* fetched for slot q is stored, for slot q + 1, only if q + 1 is not below
\* the stored slot.
C29_RandaoSlotNeverDecreases ==
    [][/\ expectedPrevRandao'.slot >= expectedPrevRandao.slot
       /\ expectedPrevRandao' # expectedPrevRandao =>
             \E q \in 0..MaxSlot :
                /\ randaoFetches[q] > 0
                /\ randaoFetches'[q] = randaoFetches[q] - 1
                /\ q + 1 >= expectedPrevRandao.slot
                /\ expectedPrevRandao' = [slot |-> q + 1, prevRandao |-> GetRandao(q)]
      ]_vars

\* the randao for slot 3 is stored while the request for slot 1 is still
\* in flight
C29_Witness ==
    /\ expectedPrevRandao.slot = 3
    /\ randaoFetches[1] > 0

\* C30: at no time are two randao requests for the same slot in flight.
C30_NoDuplicateFetch ==
    \A s \in 0..MaxSlot : randaoFetches[s] <= 1

(* ------------------------- randao confirmation -------------------------- *)
\* the submission passes every gate and check made before the randao
\* confirmation
PassesChecksBeforeRandao(slot, value, builderEntry) ==
    /\ slot > slotLastPayloadDelivered
    /\ ~builderEntry.blacklisted
    /\ ~(ffDisableLowPrioBuilders /\ ~builderEntry.high_prio)
    /\ slot > headSlot
    /\ value # 0

\* C31: a submission enters simulation or the cache writes only when, at
\* the randao confirmation, the expected randao is for the submission's
\* slot and equals the payload's prev_randao; an otherwise well-formed
\* submission is answered 500 "prev_randao is not known yet" when the slot
\* differs and 400 when the slot matches and the value differs.
C31_RandaoConfirmed ==
    [][/\ \A h \in Handlers :
             (sub[h] = IdleSub /\ sub'[h] # IdleSub) =>
                /\ expectedPrevRandao.slot = sub'[h].slot
                /\ \A r \in 0..MaxSlot :
                      SubmitNewBlock(h, sub'[h].builder, expectedPrevRandao.slot, MaxValue,
                                     sub'[h].receivedAt,
                                     GenesisTime + (expectedPrevRandao.slot * 12), "f1", 1, TRUE,
                                     r, TRUE, {1}, {"h1"})
                         => r = expectedPrevRandao.prevRandao
       /\ \A b \in Builders, s \in SubmissionSlots, v \in Values, r \in 0..MaxSlot :
             PassesChecksBeforeRandao(s, v, BuilderEntry(b)) =>
                LET answer == CheckSubmission(s, v, BuilderEntry(b), GenesisTime + (s * 12),
                                              "f1", 1, TRUE, r, TRUE)
                IN /\ expectedPrevRandao.slot # s =>
                         answer = [code |-> 500, msg |-> MsgRandaoUnknown]
                   /\ (expectedPrevRandao.slot = s /\ expectedPrevRandao.prevRandao # r) =>
                         answer.code = 400
                   /\ (expectedPrevRandao.slot = s /\ expectedPrevRandao.prevRandao = r) =>
                         answer = NoResp
      ]_vars

\* the expected randao is that of slot 3, a submission for slot 3 is in
\* its cache writes, and slot 2 was never delivered: a submission for slot
\* 2 is answered 500 now
C31_Witness ==
    /\ expectedPrevRandao = [slot |-> 3, prevRandao |-> GetRandao(2)]
    /\ sub[1].pc = "write" /\ sub[1].slot = 3
    /\ slotLastPayloadDelivered = 0
    /\ CheckSubmission(2, MaxValue, BuilderEntry("b1"), GenesisTime + (2 * 12), "f1", 1, TRUE,
                       GetRandao(1), TRUE).code = 500

(* --------------------------- builder cache ------------------------------ *)
\* a builder submits for slot 2 while the operator changes the status of
\* builder b2 and the slot ticks refresh the cache
InitCache ==
    InitWith([submissions |-> MaxSubmissions - 1, operator |-> MaxOperatorCalls,
              headEvents |-> MaxHeadEvents, getPayloads |-> 0,
              fetchFailures |-> 0])

NextCache ==
    \/ SubmissionSteps({1}, Builders, {2}, {1}, {"h1"}, {"none"})
    \/ OptimisticSteps({1})
    \/ CacheSteps
    \/ RandaoSteps
    \/ HeadSteps({2})
    \/ OperatorSteps({"b2"}, OperatorStatuses)

SpecCache == InitCache /\ [][NextCache]_vars

\* C32: when a handler reads the builder cache while a refresh is in its
\* loop, the cache is the whole mapping of before the refresh or the whole
\* mapping the refresh read from the durable store.
C32_ReadersSeeWholeMap ==
    [][\A h \in Handlers :
          (sub[h] = IdleSub /\ sub'[h] # IdleSub) =>
             \A s \in Slots :
                builderCacheRefresh[s].todo # <<>> =>
                   blockBuildersCache \in {builderCacheRefresh[s].before,
                                           builderCacheRefresh[s].rows}
      ]_vars

(* --------------------------- proposer duties ---------------------------- *)
\* the relay starts at slot 8; head events arrive for later slots, some
\* slots are missed, the housekeeper publishes new duties, and reads of the
\* cache may fail
InitDuties ==
    InitAt(DutiesStartSlot,
           [submissions |-> 0, operator |-> 0, headEvents |-> MaxHeadEvents + 2,
            getPayloads |-> 0, fetchFailures |-> 0, dutiesFailures |-> MaxFetchFailures],
           FALSE, FALSE)

NextDuties ==
    \/ HeadSteps(DutySlots)
    \/ DutiesSteps

SpecDuties == InitDuties /\ [][NextDuties]_vars

\* a failed read leaves the duties as they were, a successful one stores
\* what the cache returned
DutiesStoredOnlyOnSuccess ==
    /\ updateProposerDutiesEnd(FALSE) =>
          UNCHANGED <<proposerDutiesMap, proposerDutiesResponse, proposerDutiesSlot>>
    /\ updateProposerDutiesEnd(TRUE) =>
          /\ proposerDutiesResponse' = redisProposerDuties
          /\ \A d \in redisProposerDuties : proposerDutiesMap'[d.slot] = d.entry
          /\ proposerDutiesSlot' = proposerDutiesCall

InitKnown ==
    InitWith([submissions |-> MaxSubmissions, operator |-> 0, headEvents |-> 0,
              getPayloads |-> 0, fetchFailures |-> 0])

NextKnown ==
    \/ PipelineSteps(Handlers, Builders, {2}, 1..MaxValue, BlockHashes)
    \/ SimulationSteps(Handlers, {ErrBlockAlreadyKnown})
    \/ RefreshSteps

SpecKnown == InitKnown /\ [][NextKnown]_vars

\* C34: a simulation answered "simulation failed: block already known" is
\* a success: on the synchronous path the handler goes on to the staleness
\* check and the cache writes and records no error, and on the optimistic
\* path neither the builder's status nor the demotions table changes.
C34_BlockAlreadyKnownIsSuccess ==
    [][\A h \in Handlers :
          /\ SubmitSimulate(h, ErrBlockAlreadyKnown) =>
                /\ sub'[h].pc = "stale"
                /\ sub'[h].simulated
                /\ UNCHANGED dbSubmissions
          /\ OptimisticFinish(h, ErrBlockAlreadyKnown) =>
                UNCHANGED <<dbBuilders, dbDemotions>>
      ]_vars

\* both paths were taken and ended: a synchronous and an optimistic
\* submission are recorded without an error, their bids are retained and
\* no builder is demoted
C34_Witness ==
    /\ \A h \in Handlers : sub[h] = IdleSub
    /\ \E r \in dbSubmissions : ~r.optimistic_submission /\ r.sim_error = ""
    /\ \E r \in dbSubmissions : r.optimistic_submission /\ r.sim_error = ""
    /\ \E k \in BidKeys : latestBids[k] # NoBid /\ latestBids[k].value = MaxValue
    /\ dbDemotions = {}
    /\ \A b \in Builders : ~dbBuilders[b].demoted

(* --------------------------- delivery marker ---------------------------- *)
\* C35: the marker of the last delivered slot never decreases, and once the
\* background task of every answered getPayload call has recorded its
\* delivery the marker is the highest slot a payload was delivered for.
C35_MarkerIsHighestDelivered ==
    [][/\ slotLastPayloadDelivered' >= slotLastPayloadDelivered
       /\ (\A g \in GetPayloadCalls : gp'[g].pc # "save") =>
             slotLastPayloadDelivered' = MaxDelivered'
      ]_vars

(* --------------------------- one payload a slot ------------------------- *)
\* two blocks for one slot, and a proposer that asks twice
InitReveal == InitWith([submissions |-> MaxSubmissions, operator |-> 0,
                        headEvents |-> 0, getPayloads |-> MaxGetPayloads + 1,
                        fetchFailures |-> 0])

NextReveal ==
    \/ SubmissionSteps({1}, Builders, {2}, {1}, BlockHashes, {"none"})
    \/ OptimisticSteps({1})
    \/ RefreshSteps
    \/ GetPayloadSteps({2}, {1}, BlockHashes, {"p1"})

SpecReveal == InitReveal /\ [][NextReveal]_vars

\* the block hashes a payload was returned for, by slot and proposer: the
\* calls whose background task is still running and the rows it has saved
RevealedHashes(slot, proposer) ==
    {gp[g].blockHash : g \in {c \in GetPayloadCalls : /\ gp[c].pc # "idle"
                                                       /\ gp[c].slot = slot
                                                       /\ gp[c].proposer = proposer}}
    \cup {d.blockHash : d \in {r \in dbDeliveredPayloads : /\ r.slot = slot
                                                           /\ r.proposer = proposer}}

\* C36: for any slot and proposer, getPayload returns a payload for at most
\* one block hash: after the payload of one hash was returned, a request
\* for another stored hash of the same slot is not answered with a payload.
C36_OnePayloadPerSlot ==
    \A slot \in Slots, proposer \in Proposers :
        Cardinality(RevealedHashes(slot, proposer)) <= 1

(* --------------------------- writes after delivery ---------------------- *)
\* C37: no cache write of a submission for slot s happens once the marker
\* of the last delivered slot is s or more, also when the submission passed
\* the slot gate before the delivery.
C37_NoWriteAfterDelivery ==
    [][\A h \in Handlers :
          SubmitWrite(h) => sub[h].slot > slotLastPayloadDelivered]_vars

(* --------------------------- frame of a demotion ------------------------ *)
\* C38: a demotion changes only the demoted bit of the builder's durable
\* row: its high_prio and blacklisted bits are after the demotion what they
\* were immediately before it, also when the operator changed them after
\* the last refresh of the builder cache.
C38_DemotionKeepsOtherBits ==
    [][\A h \in Handlers, e \in SimResults :
          (OptimisticFinish(h, e) /\ simulateBlock(e) # "") =>
             /\ dbBuilders'[sub[h].builder].high_prio = dbBuilders[sub[h].builder].high_prio
             /\ dbBuilders'[sub[h].builder].blacklisted =
                    dbBuilders[sub[h].builder].blacklisted]_vars

(* --------------------------- the optimistic slot ------------------------ *)
\* C39: optimisticSlot is at most headSlot + 1 in every state, and once the
\* slot-tick tasks of all head events received so far have finished it is
\* headSlot + 1, also when the tasks of two head events finish out of order.
C39_OptimisticSlotFollowsHead ==
    /\ optimisticSlot <= headSlot + 1
    /\ optimisticSlotTasks = {} => optimisticSlot = headSlot + 1

(* --------------------------- a failed simulation ------------------------ *)
\* C40: the failure of an optimistic simulation leaves the bid store as it
\* is: the bid, the payload and the bid trace of the submission stay, so
\* getHeader can still return the bid and getPayload can still deliver it.
C40_FailedSimulationKeepsBid ==
    [][\A h \in Handlers, e \in SimResults :
          (OptimisticFinish(h, e) /\ simulateBlock(e) # "") =>
             /\ UNCHANGED storeVars
             /\ \A s \in Slots, p \in SubmissionProposers, pa \in Parents :
                   handleGetHeader(s, pa, p)' = handleGetHeader(s, pa, p)
             /\ \A s \in Slots, i \in ValidatorIndexes, bh \in BlockHashes, k \in Signers :
                   GetPayloadAnswer(s, i, bh, k)' = GetPayloadAnswer(s, i, bh, k)
      ]_vars

\* the optimistic simulation of builder b1's accepted block failed; its bid
\* is the top bid getHeader returns and getPayload would deliver its payload
C40_Witness ==
    /\ sub[1] = IdleSub
    /\ \E r \in dbDemotions :
          /\ r.builder = "b1" /\ r.slot = 2
          /\ dbBuilders["b1"].demoted
          /\ bidTraces[<<2, "p1", r.blockHash>>] # NoBid
          /\ handleGetHeader(2, "pa", "p1").code = 200
          /\ handleGetHeader(2, "pa", "p1").bid.blockHash = r.blockHash
          /\ GetPayloadAnswer(2, 1, r.blockHash, "p1").code = 200

====
